---- MODULE Spec2Model ----
(***************************************************************************)
(* Model of the hybrid retrieval and conversational orchestration of the   *)
(* event assistant (src/unnamed/part_003, the AI retrieval service).       *)
(*                                                                         *)
(* Text is modelled as a sequence of one-character strings, so that the    *)
(* code's lowercasing, trimming, splitting and pattern tests are computed  *)
(* rather than assumed.                                                    *)
(***************************************************************************)
EXTENDS Integers, Sequences, FiniteSets, TLC

VARIABLES
    store,            \* the documents of the 'events' collection, in natural order
    queryEmbedding,   \* retrieveRelevantEvents: TRUE when a query vector was passed
    queryText,        \* retrieveRelevantEvents: the query text
    limit,            \* retrieveRelevantEvents: the limit parameter
    vectorResults,    \* retrieveRelevantEvents: let vectorResults
    keywordResults,   \* retrieveRelevantEvents: let keywordResults
    vectorFailed,     \* log: the vector search threw
    keywordFailed,    \* log: the keyword search (or its RegExp construction) threw
    retrieved,        \* the value retrieveRelevantEvents returned
    question,         \* getChatResponse: the question parameter
    history,          \* getChatResponse: the conversationHistory parameter
    user,             \* getChatResponse: the user parameter
    isFollowUp,       \* getChatResponse: const isFollowUp
    relevantEvents,   \* getChatResponse: let relevantEvents
    generation,       \* log: how the generation call ended
    caught,           \* log: the outer catch of getChatResponse ran
    standardResult,   \* log: what performStandardSearch ended with
    result,           \* what getChatResponse ended with
    calls,            \* log: the services and functions invoked, in order
    pc,               \* position in the running call
    arg,              \* a helper function called on its own: its arguments
    ret               \* a helper function called on its own: what it returned

retrieveVars == <<store, queryEmbedding, queryText, limit, vectorResults,
                  keywordResults, vectorFailed, keywordFailed, retrieved>>

\* the parameters of getChatResponse
chatArgs == <<question, history, user>>

chatVars == <<chatArgs, isFollowUp, relevantEvents, generation, caught,
              standardResult, result>>

\* the call of a helper function on its own
unitVars == <<arg, ret>>

vars == <<retrieveVars, chatVars, calls, pc, unitVars>>

-----------------------------------------------------------------------------
(* Bounds of the model *)

\* most records one vector search answers with
MaxVec == 2
\* most records one keyword search answers with
MaxKw == 2
\* largest limit retrieveRelevantEvents is called with on its own
MaxLimit == 3

-----------------------------------------------------------------------------
(* Characters and strings *)

Max(a, b) == IF a >= b THEN a ELSE b
Min(a, b) == IF a <= b THEN a ELSE b

UpperChars == <<"A","B","C","D","E","F","G","H","I","J","K","L","M",
                "N","O","P","Q","R","S","T","U","V","W","X","Y","Z">>
LowerChars == <<"a","b","c","d","e","f","g","h","i","j","k","l","m",
                "n","o","p","q","r","s","t","u","v","w","x","y","z">>
DigitChars == <<"0","1","2","3","4","5","6","7","8","9">>

IsUpper(c) == \E i \in 1..26 : UpperChars[i] = c
IsLower(c) == \E i \in 1..26 : LowerChars[i] = c
IsDigit(c) == \E i \in 1..10 : DigitChars[i] = c
IsSpace(c) == c = " "

toLowerChar(c) ==
    IF IsUpper(c) THEN LowerChars[CHOOSE i \in 1..26 : UpperChars[i] = c] ELSE c

\* String.prototype.toLowerCase
toLowerCase(s) == [i \in 1..Len(s) |-> toLowerChar(s[i])]

RECURSIVE trimStart(_)
trimStart(s) ==
    IF s # <<>> /\ IsSpace(Head(s)) THEN trimStart(Tail(s)) ELSE s

RECURSIVE trimEnd(_)
trimEnd(s) ==
    IF s # <<>> /\ IsSpace(s[Len(s)]) THEN trimEnd(SubSeq(s, 1, Len(s) - 1)) ELSE s

\* String.prototype.trim
trim(s) == trimEnd(trimStart(s))

AllUpper(s) == \A i \in 1..Len(s) : IsUpper(s[i])
AllLower(s) == \A i \in 1..Len(s) : IsLower(s[i])

\* the placeholder marker 'N/A'
NA == <<"N","/","A">>

-----------------------------------------------------------------------------
(* Texts.  A text is the sequence of its characters, each a string of one  *)
(* character; C gives the text a string stands for.                        *)

C(k) == [i \in 1..Len(k) |-> SubSeq(k, i, i)]

\* String.prototype.includes
Includes(s, sub) ==
    \E i \in 0..(Len(s) - Len(sub)) : SubSeq(s, i + 1, i + Len(sub)) = sub

\* Array.prototype.join(' ')
RECURSIVE joinBlank(_)
joinBlank(words) ==
    IF words = <<>> THEN <<>>
    ELSE IF Len(words) = 1 THEN words[1]
    ELSE words[1] \o <<" ">> \o joinBlank(Tail(words))

\* String.prototype.split on runs of the separators seps: the pieces between
\* the runs, with an empty piece at an end the text starts or ends with a run
RECURSIVE SplitFrom(_, _, _, _, _)
SplitFrom(rest, cur, inSep, acc, seps) ==
    IF rest = <<>> THEN Append(acc, cur)
    ELSE IF Head(rest) \in seps
         THEN IF inSep THEN SplitFrom(Tail(rest), cur, TRUE, acc, seps)
              ELSE SplitFrom(Tail(rest), <<>>, TRUE, Append(acc, cur), seps)
         ELSE SplitFrom(Tail(rest), Append(cur, Head(rest)), FALSE, acc, seps)

\* text.split(/\s+/)
splitBlanks(text) == SplitFrom(text, <<>>, FALSE, <<>>, {" "})

-----------------------------------------------------------------------------
(* Regular expressions, as the terms the code's patterns are built from.   *)
(* Ends(re, s, i) lists the positions a match of re can end at when it     *)
(* starts behind position i of s, in the order a backtracking matcher      *)
(* tries them: the first is where the match ends.  A pattern with the i    *)
(* flag is written in lower case and run on the lowercased text.           *)

Lit(k) == [t |-> "lit", s |-> C(k)]
Cls(set) == [t |-> "cls", set |-> set]
Cat(parts) == [t |-> "cat", parts |-> parts]
Alt(opts) == [t |-> "alt", opts |-> opts]
Rep(r, lo, hi) == [t |-> "rep", r |-> r, lo |-> lo, hi |-> hi, lazy |-> FALSE]
LazyRep(r, lo, hi) == [t |-> "rep", r |-> r, lo |-> lo, hi |-> hi, lazy |-> TRUE]
Bol == [t |-> "bol"]
Eol == [t |-> "eol"]
WordB == [t |-> "wordb"]
AnyOf(ks) == Alt([k \in DOMAIN ks |-> Lit(ks[k])])

\* no repetition in a pattern runs longer than the longest text
Unbounded == 200
Star(r) == Rep(r, 0, Unbounded)
Plus(r) == Rep(r, 1, Unbounded)
Opt(r) == Rep(r, 0, 1)
LazyStar(r) == LazyRep(r, 0, Unbounded)

UpperLetters == {UpperChars[i] : i \in 1..26}
LowerLetters == {LowerChars[i] : i \in 1..26}
Letters == UpperLetters \cup LowerLetters
Digits == {DigitChars[i] : i \in 1..10}
WordChars == Letters \cup Digits \cup {"_"}
Blanks == {" "}
Punct == {".", ",", "!", "?", ";", ":", "'", "-", "(", ")", "+", "*", "/", "@", "%", "_"}
\* the characters texts are written in; . matches each of them
Alphabet == Letters \cup Digits \cup Blanks \cup Punct
Dot == Cls(Alphabet)

IsWordAt(s, i) == i >= 1 /\ i <= Len(s) /\ s[i] \in WordChars

\* a followed by what b adds to it
Merge(a, b) == a \o SelectSeq(b, LAMBDA x : \A j \in DOMAIN a : a[j] # x)

RECURSIVE Ends(_, _, _)
RECURSIVE CatEnds(_, _, _, _)
RECURSIVE CatOver(_, _, _, _)
RECURSIVE RepEnds(_, _, _, _, _, _)
RECURSIVE RepOver(_, _, _, _, _, _)
RECURSIVE AltOver(_, _, _)

CatEnds(parts, k, s, i) ==
    IF k > Len(parts) THEN <<i>>
    ELSE CatOver(Ends(parts[k], s, i), parts, k + 1, s)

\* the rest of the parts from each end in es, in the order of es; the
\* recursion halves es
CatOver(es, parts, k, s) ==
    IF es = <<>> THEN <<>>
    ELSE IF Len(es) = 1 THEN CatEnds(parts, k, s, es[1])
    ELSE Merge(CatOver(SubSeq(es, 1, Len(es) \div 2), parts, k, s),
               CatOver(SubSeq(es, Len(es) \div 2 + 1, Len(es)), parts, k, s))

\* how many characters of set follow position i, up to hi
RunLength(set, hi, s, i) ==
    CHOOSE n \in 0..Min(hi, Len(s) - i) :
        /\ \A j \in 1..n : s[i + j] \in set
        /\ n = Min(hi, Len(s) - i) \/ s[i + n + 1] \notin set

\* a repeated character class: the run it can take, longest first when greedy
ClsRepEnds(set, lo, hi, lazy, s, i) ==
    LET n == RunLength(set, hi, s, i)
    IN IF n < lo THEN <<>>
       ELSE [k \in 1..(n - lo + 1) |->
                IF lazy THEN i + lo + k - 1 ELSE i + n - k + 1]

\* lo: repetitions still due; hi: repetitions still allowed
RepEnds(r, lo, hi, lazy, s, i) ==
    LET more == IF hi = 0 THEN <<>>
                ELSE RepOver(SelectSeq(Ends(r, s, i), LAMBDA e : e # i),
                             r, lo - 1, hi - 1, lazy, s)
        here == IF lo <= 0 THEN <<i>> ELSE <<>>
    IN IF lazy THEN Merge(here, more) ELSE Merge(more, here)

RepOver(es, r, lo, hi, lazy, s) ==
    IF es = <<>> THEN <<>>
    ELSE IF Len(es) = 1 THEN RepEnds(r, lo, hi, lazy, s, es[1])
    ELSE Merge(RepOver(SubSeq(es, 1, Len(es) \div 2), r, lo, hi, lazy, s),
               RepOver(SubSeq(es, Len(es) \div 2 + 1, Len(es)), r, lo, hi, lazy, s))

\* the alternatives in their order; the recursion halves opts
AltOver(opts, s, i) ==
    IF opts = <<>> THEN <<>>
    ELSE IF Len(opts) = 1 THEN Ends(opts[1], s, i)
    ELSE Merge(AltOver(SubSeq(opts, 1, Len(opts) \div 2), s, i),
               AltOver(SubSeq(opts, Len(opts) \div 2 + 1, Len(opts)), s, i))

Ends(re, s, i) ==
    CASE re.t = "lit" ->
            IF i + Len(re.s) <= Len(s) /\ SubSeq(s, i + 1, i + Len(re.s)) = re.s
            THEN <<i + Len(re.s)>> ELSE <<>>
      [] re.t = "cls" -> IF i < Len(s) /\ s[i + 1] \in re.set THEN <<i + 1>> ELSE <<>>
      [] re.t = "cat" -> CatEnds(re.parts, 1, s, i)
      [] re.t = "alt" -> AltOver(re.opts, s, i)
      [] re.t = "rep" ->
            IF re.r.t = "cls" THEN ClsRepEnds(re.r.set, re.lo, re.hi, re.lazy, s, i)
            ELSE RepEnds(re.r, re.lo, re.hi, re.lazy, s, i)
      [] re.t = "bol" -> IF i = 0 THEN <<i>> ELSE <<>>
      [] re.t = "eol" -> IF i = Len(s) THEN <<i>> ELSE <<>>
      [] re.t = "wordb" -> IF IsWordAt(s, i) # IsWordAt(s, i + 1) THEN <<i>> ELSE <<>>

\* RegExp.prototype.test, and String.prototype.match used as a condition
Test(re, s) == \E i \in 0..Len(s) : Ends(re, s, i) # <<>>

\* a match, as the positions it spans
NoMatch == [found |-> FALSE, from |-> 0, to |-> 0]

\* the leftmost match, given the ends found from every start
FirstStart(endsFrom) ==
    IF \A i \in DOMAIN endsFrom : endsFrom[i] = <<>> THEN NoMatch
    ELSE LET i == CHOOSE i \in DOMAIN endsFrom :
                      /\ endsFrom[i] # <<>>
                      /\ \A j \in DOMAIN endsFrom : j < i => endsFrom[j] = <<>>
         IN [found |-> TRUE, from |-> i, to |-> endsFrom[i][1]]

\* String.prototype.match: the leftmost match
Match(re, s) == FirstStart([i \in 0..Len(s) |-> Ends(re, s, i)])

\* the first prefix end from which the group matches, and where the group
\* ends: ps are the prefix ends in order, gs[k] the group ends from ps[k]
FirstGroup(ps, gs) ==
    LET k == CHOOSE k \in DOMAIN ps :
                 gs[k] # <<>> /\ \A j \in 1..(k - 1) : gs[j] = <<>>
    IN [found |-> TRUE, from |-> ps[k], to |-> gs[k][1]]

GroupFrom(ps, group, s) ==
    FirstGroup(ps, [k \in DOMAIN ps |-> Ends(group, s, ps[k])])

CaptureIn(whole, prefix, group, s) ==
    IF whole.found THEN GroupFrom(Ends(prefix, s, whole.from), group, s)
    ELSE NoMatch

\* the match of prefix followed by (group): the span of the group
Capture(prefix, group, s) ==
    CaptureIn(Match(Cat(<<prefix, group>>), s), prefix, group, s)

\* the text a match or a group spans
Span(m, s) == SubSeq(s, m.from + 1, m.to)

-----------------------------------------------------------------------------
(* Event records.  A field that is absent (or the whole event_details      *)
(* object absent) reads as undefined, which every use in the code treats   *)
(* like the empty string: (x || ''), x && ...                              *)

Rec(id, name, date, loc, time, org, web) ==
    [id |-> id, event_name |-> name, event_date |-> date, location |-> loc,
     event_time |-> time, organizer |-> org, website |-> web]

\* sample field values
D1 == <<"M","a","y"," ","5">>
L1 == <<"G","o","a">>
T1 == <<"9","a","m">>
O1 == <<"Z","e","d">>
W1 == <<"x",".","i","o">>
Blank == <<" ">>
None == <<>>

\* The documents the model draws from; a document's _id is its position.  The
\* state holds documents by _id.
Catalogue == <<
    Rec(1, <<"H","o","l","i"," ","F","e","s","t">>, D1, L1, None, None, None),
    Rec(2, <<"h","o","l","i","-","f","e","s","t">>, D1, L1, T1, None, None),
    Rec(3, <<"-","-","-","-">>, D1, NA, None, None, None),
    Rec(4, <<"-","-"," ","-","-">>, D1, Blank, None, None, None),
    Rec(5, <<"T","H","E">>, D1, L1, None, None, None),
    Rec(6, <<"t","h","e">>, D1, L1, T1, O1, W1),
    Rec(7, <<"A","B">>, D1, L1, T1, O1, W1),
    Rec(8, <<"J","a","z","z">>, None, None, T1, None, None),
    Rec(9, <<"E","x","p","o">>, NA, Blank, None, None, None),
    Rec(10, <<"G","a","l","a"," ">>, None, L1, None, None, None),
    Rec(11, None, D1, L1, T1, O1, W1),
    Rec(12, <<"H","O","L","I"," ","F","E","S","T">>, None, None, T1, None, None),
    Rec(13, None, None, NA, T1, O1, W1),
    Rec(14, NA, Blank, None, T1, O1, W1),
    Rec(15, <<"H","o","l","i"," ","F","e","s","t","!">>, None, None, None, None, None) >>

Doc(e) == Catalogue[e]

\* the collection retrieveRelevantEvents is exercised on, in natural order
RetrieveStore == [i \in 1..Len(Catalogue) |-> i]

\* the collection getChatResponse is exercised on, in natural order
ChatStore == <<2, 3, 5, 10, 9>>

-----------------------------------------------------------------------------
(* Quality Scorer *)

\* x && x !== 'N/A' && x.trim().length > 0
FieldPresent(x) == x # <<>> /\ x # NA /\ Len(trim(x)) > 0

\* /^[A-Z]{2,3}$/
IsAcronym23(s) == Len(s) >= 2 /\ Len(s) <= 3 /\ AllUpper(s)
\* /^[A-Z]{2,4}$/
IsAcronym24(s) == Len(s) >= 2 /\ Len(s) <= 4 /\ AllUpper(s)

\* a name score that grants the 30 points to every name that is present
NameScoreGrantingAlways(eventName) ==
    IF eventName # <<>> /\ eventName # NA /\ Len(eventName) > 0
    THEN (IF Len(eventName) <= 3 /\ ~IsAcronym23(eventName) THEN -20 ELSE 0) + 30
    ELSE 0

NameScore(eventName) ==
    IF eventName # <<>> /\ eventName # NA /\ Len(eventName) > 0
    THEN (IF Len(eventName) <= 3 /\ ~IsAcronym23(eventName) THEN -20 ELSE 0)
         + (IF Len(eventName) > 3 \/ IsAcronym24(eventName) THEN 30 ELSE 0)
    ELSE 0

\* the score without Math.max(0, score)
calculateEventQualityUnclamped(event) ==
    NameScore(trim(event.event_name))
    + (IF FieldPresent(event.event_date) THEN 25 ELSE 0)
    + (IF FieldPresent(event.location) THEN 20 ELSE 0)
    + (IF FieldPresent(event.event_time) THEN 10 ELSE 0)
    + (IF FieldPresent(event.organizer) THEN 10 ELSE 0)
    + (IF FieldPresent(event.website) THEN 5 ELSE 0)

calculateEventQuality(event) ==
    LET eventName == trim(event.event_name)
        score == NameScore(eventName)
                 + (IF FieldPresent(event.event_date) THEN 25 ELSE 0)
                 + (IF FieldPresent(event.location) THEN 20 ELSE 0)
                 + (IF FieldPresent(event.event_time) THEN 10 ELSE 0)
                 + (IF FieldPresent(event.organizer) THEN 10 ELSE 0)
                 + (IF FieldPresent(event.website) THEN 5 ELSE 0)
    IN Max(0, score)

-----------------------------------------------------------------------------
(* Result Merger/Deduper: steps 3 to 6 of retrieveRelevantEvents *)

\* the score of every document, computed once
QualityOf == [e \in DOMAIN Catalogue |-> calculateEventQuality(Doc(e))]

\* (result.event_details?.event_name || '').toLowerCase().trim()
LoweredName(event) == trim(toLowerCase(event.event_name))

\* eventName.replace(/[^a-z0-9]/g, '')
IsAlnumLower(c) == IsLower(c) \/ IsDigit(c)
normalizeName(eventName) == SelectSeq(eventName, IsAlnumLower)

\* the loop's two names of every document, computed once
LoweredNameOf == [e \in DOMAIN Catalogue |-> LoweredName(Doc(e))]
NormalizedNameOf == [e \in DOMAIN Catalogue |-> normalizeName(LoweredNameOf[e])]

\* eventName.length <= 3 && !eventName.match(/^[a-z]{3,}$/)
TooShortOrGeneric(eventName) ==
    Len(eventName) <= 3 /\ ~(Len(eventName) >= 3 /\ AllLower(eventName))

\* the loop without its check of seenNames
KeptByLoopWhateverName(e, seenIds, seenNames) ==
    /\ Doc(e).id \notin seenIds
    /\ ~TooShortOrGeneric(LoweredNameOf[e])

\* the loop without its check of seenIds
KeptByLoopWhateverId(e, seenIds, seenNames) ==
    /\ ~TooShortOrGeneric(LoweredNameOf[e])
    /\ ~(NormalizedNameOf[e] # <<>> /\ NormalizedNameOf[e] \in seenNames)

\* whether the loop keeps document e, given what it has seen so far
KeptByLoop(e, seenIds, seenNames) ==
    LET idStr == Doc(e).id
        eventName == LoweredNameOf[e]
        normalizedName == NormalizedNameOf[e]
    IN /\ idStr \notin seenIds
       /\ ~TooShortOrGeneric(eventName)
       /\ ~(normalizedName # <<>> /\ normalizedName \in seenNames)

\* the for loop over allResults
RECURSIVE DedupLoop(_, _, _, _)
DedupLoop(rest, seenIds, seenNames, uniqueResults) ==
    IF rest = <<>> THEN uniqueResults
    ELSE LET e == Head(rest)
             normalizedName == NormalizedNameOf[e]
         IN IF KeptByLoop(e, seenIds, seenNames)
            THEN DedupLoop(Tail(rest), seenIds \cup {Doc(e).id},
                           IF normalizedName # <<>>
                           THEN seenNames \cup {normalizedName} ELSE seenNames,
                           Append(uniqueResults, e))
            ELSE DedupLoop(Tail(rest), seenIds, seenNames, uniqueResults)

uniqueOf(allResults) == DedupLoop(allResults, {}, {}, <<>>)

StrictFloor == 50
LenientFloor == 40

\* the strict filter without its check of the name
PassesStrictWhateverName(event) == calculateEventQuality(event) >= StrictFloor

\* the predicate of the strict filter
PassesStrict(event) ==
    LET eventName == trim(event.event_name)
    IN /\ ~(Len(eventName) <= 3 /\ ~IsAcronym23(eventName))
       /\ calculateEventQuality(event) >= StrictFloor

\* the lenient filter without its floor
PassesLenientWhateverScore(event) == ~(Len(trim(event.event_name)) <= 2)

\* the predicate of the lenient filter
PassesLenient(event) ==
    LET eventName == trim(event.event_name)
    IN /\ ~(Len(eventName) <= 2)
       /\ calculateEventQuality(event) >= LenientFloor

\* the documents passing each filter, computed once
StrictSet == {e \in DOMAIN Catalogue : PassesStrict(Doc(e))}
LenientSet == {e \in DOMAIN Catalogue : PassesLenient(Doc(e))}
InStrictSet(e) == e \in StrictSet
InLenientSet(e) == e \in LenientSet

qualityFilteredOf(uniqueResults) == SelectSeq(uniqueResults, InStrictSet)
lenientFilteredOf(uniqueResults) == SelectSeq(uniqueResults, InLenientSet)

\* a sort that puts e before the elements it ties with
RECURSIVE InsertBeforeTies(_, _)
InsertBeforeTies(sorted, e) ==
    IF sorted = <<>> THEN <<e>>
    ELSE IF QualityOf[Head(sorted)] > QualityOf[e]
         THEN <<Head(sorted)>> \o InsertBeforeTies(Tail(sorted), e)
         ELSE <<e>> \o sorted

\* where sort puts e among events already sorted: behind every element that
\* does not score lower (Array.prototype.sort is stable)
RECURSIVE InsertByQuality(_, _)
InsertByQuality(sorted, e) ==
    IF sorted = <<>> THEN <<e>>
    ELSE IF QualityOf[Head(sorted)] >= QualityOf[e]
         THEN <<Head(sorted)>> \o InsertByQuality(Tail(sorted), e)
         ELSE <<e>> \o sorted

RECURSIVE SortFrom(_, _)
SortFrom(rest, sorted) ==
    IF rest = <<>> THEN sorted
    ELSE SortFrom(Tail(rest), InsertByQuality(sorted, Head(rest)))

\* the survivors left in the order they came in
inInputOrder(events) == events

\* events.sort((a, b) => calculateEventQuality(b) - calculateEventQuality(a))
sortByQuality(events) == SortFrom(events, <<>>)

\* a slice that keeps everything
sliceAll(s, n) == s

\* Array.prototype.slice(0, n)
slice0(s, n) == SubSeq(s, 1, Min(n, Len(s)))

\* whether the lenient pass decides the result
LenientApplies(uniqueResults) ==
    /\ qualityFilteredOf(uniqueResults) = <<>>
    /\ uniqueResults # <<>>
    /\ lenientFilteredOf(uniqueResults) # <<>>

\* steps 3 to 6 handing out the raw candidates when no candidate survives
MergeOrRawCandidates(vec, kw, lim) ==
    LET uniqueResults == uniqueOf(vec \o kw)
        survivors == IF LenientApplies(uniqueResults)
                     THEN lenientFilteredOf(uniqueResults)
                     ELSE qualityFilteredOf(uniqueResults)
    IN IF survivors = <<>> THEN slice0(vec \o kw, lim)
       ELSE slice0(sortByQuality(survivors), lim)

MergeFilterRank(vec, kw, lim) ==
    LET allResults == vec \o kw
        uniqueResults == uniqueOf(allResults)
    IN IF LenientApplies(uniqueResults)
       THEN slice0(sortByQuality(lenientFilteredOf(uniqueResults)), lim)
       ELSE slice0(sortByQuality(qualityFilteredOf(uniqueResults)), lim)

-----------------------------------------------------------------------------
(* Keyword Extractor and the regular expressions built from user text *)

\* queryText.toLowerCase().split(/[\s,.?!]+/)
splitTokens(text) == SplitFrom(text, <<>>, FALSE, <<>>, {" ", ",", ".", "?", "!"})

stopWords ==
    {C("show"), C("me"), C("any"), C("event"), C("events"), C("of"), C("in"),
     C("for"), C("the"), C("a"), C("an"), C("find"), C("search"), C("about"),
     C("is"), C("are"), C("which"), C("what"), C("when"), C("where")}

IsKeyword(t) == Len(t) > 2 /\ t \notin stopWords

\* tokens.filter(t => t.length > 2 && !stopWords.includes(t))
keywordsOf(text) == SelectSeq(splitTokens(toLowerCase(text)), IsKeyword)

IsQuantifier(c) == c \in {"+", "*", "?"}

\* number of positions up to i that hold character c
CountUpTo(s, i, c) == Cardinality({j \in 1..i : s[j] = c})

\* whether new RegExp(s, 'i') returns instead of throwing a SyntaxError, for
\* patterns over letters, digits, blanks, punctuation, groups and quantifiers:
\* groups balance, and a quantifier follows an atom (a '?' may also follow one
\* quantifier, making it lazy)
RegExpCompiles(s) ==
    /\ \A i \in 1..Len(s) : CountUpTo(s, i, ")") <= CountUpTo(s, i, "(")
    /\ CountUpTo(s, Len(s), ")") = CountUpTo(s, Len(s), "(")
    /\ \A i \in 1..Len(s) :
         IsQuantifier(s[i]) =>
            /\ i > 1
            /\ s[i-1] # "("
            /\ IsQuantifier(s[i-1]) =>
                  /\ s[i] = "?"
                  /\ i > 2
                  /\ ~IsQuantifier(s[i-2])
                  /\ s[i-2] # "("

\* whether building the keyword search's conditions throws
KeywordRegExpThrows(text) ==
    LET keywords == keywordsOf(C(text))
    IN IF Len(keywords) > 0
       THEN \E k \in 1..Len(keywords) : ~RegExpCompiles(keywords[k])
       ELSE ~RegExpCompiles(C(text))

-----------------------------------------------------------------------------
(* Conversation turns.  A turn is {role, content}; the caller may also     *)
(* hand in a null where a turn belongs, on which reading a property throws.*)

UserTurn(k) == [role |-> "user", content |-> k]
AiTurn(k) == [role |-> "ai", content |-> k]
NullTurn == [role |-> "null", content |-> ""]

\* the result of a helper that may throw a TypeError
Thrown == [throws |-> TRUE, value |-> <<>>]
Value(v) == [throws |-> FALSE, value |-> v]

\* Array.prototype.slice(-n)
sliceLast(h, n) == SubSeq(h, Max(1, Len(h) - n + 1), Len(h))

\* content.toLowerCase().includes('what is ur name') || ... 'what is your name'
\* || ... "what's your name"
AsksForName(content) ==
    LET c == toLowerCase(C(content))
    IN \/ Includes(c, C("what is ur name"))
       \/ Includes(c, C("what is your name"))
       \/ Includes(c, C("what's your name"))

\* /^(my name is|i'?m|i am|it'?s|it is|this is|call me|name'?s)\s+/i
NamePrefixPattern ==
    Cat(<<Bol,
          Alt(<<Lit("my name is"), Cat(<<Lit("i"), Opt(Lit("'")), Lit("m")>>),
                Lit("i am"), Cat(<<Lit("it"), Opt(Lit("'")), Lit("s")>>),
                Lit("it is"), Lit("this is"), Lit("call me"),
                Cat(<<Lit("name"), Opt(Lit("'")), Lit("s")>>)>>),
          Plus(Cls(Blanks))>>)

\* name.replace(NamePrefixPattern, ''): the blanks are taken greedily
StripNamePrefix(name) ==
    LET ends == Ends(NamePrefixPattern, toLowerCase(name), 0)
    IN IF ends = <<>> THEN name ELSE SubSeq(name, ends[1] + 1, Len(name))

\* name.replace(/[.,!?]+$/, '')
RECURSIVE StripTrailingPunct(_)
StripTrailingPunct(name) ==
    IF name # <<>> /\ name[Len(name)] \in {".", ",", "!", "?"}
    THEN StripTrailingPunct(SubSeq(name, 1, Len(name) - 1))
    ELSE name

extractUserName(text) ==
    LET name == StripTrailingPunct(StripNamePrefix(trim(text)))
        words == slice0(splitBlanks(name), 3)
    IN trim(joinBlank(words))

\* the loop of getUserName, from turn i (counted from 1) down; null is the
\* empty name
RECURSIVE getUserNameFrom(_, _)
getUserNameFrom(h, i) ==
    IF i = 0 THEN Value(<<>>)
    ELSE IF h[i] = NullTurn THEN Thrown
    ELSE IF h[i].role = "user" /\ i > 1
         THEN IF h[i - 1] = NullTurn THEN Thrown
              ELSE IF h[i - 1].role = "ai" /\ AsksForName(h[i - 1].content)
                   THEN Value(extractUserName(C(h[i].content)))
                   ELSE getUserNameFrom(h, i - 1)
         ELSE getUserNameFrom(h, i - 1)

getUserName(h) == getUserNameFrom(h, Len(h))

HasNull(h) == \E i \in 1..Len(h) : h[i] = NullTurn

shouldAskForName(h) ==
    IF Len(h) = 0 THEN Value(FALSE)
    ELSE IF getUserName(h).throws THEN Thrown
    ELSE IF getUserName(h).value # <<>> THEN Value(FALSE)
    ELSE IF HasNull(h) THEN Thrown
    ELSE LET userMessages == SelectSeq(h, LAMBDA m : m.role = "user")
             hasAskedForName ==
                 \E i \in 1..Len(h) : h[i].role = "ai" /\ AsksForName(h[i].content)
         IN Value(Len(userMessages) = 1 /\ ~hasAskedForName)

isNameResponse(h) ==
    IF Len(h) >= 2
    THEN IF h[Len(h) - 1] = NullTurn THEN Thrown
         ELSE Value(h[Len(h) - 1].role = "ai" /\ AsksForName(h[Len(h) - 1].content))
    ELSE Value(FALSE)

-----------------------------------------------------------------------------
(* Fixed intents: detectIntent *)

\* /^(hi|hello|hey|greetings|good morning|good evening)/
GreetingPattern ==
    Cat(<<Bol, AnyOf(<<"hi", "hello", "hey", "greetings", "good morning",
                       "good evening">>)>>)

Has(q, k) == Includes(q, C(k))

IsListIntent(q) ==
    \/ Has(q, "all events") \/ Has(q, "show events") \/ Has(q, "any events")
    \/ Has(q, "latest events")
    \/ q = C("events")

IsHelpIntent(q) ==
    \/ Has(q, "help") \/ Has(q, "what can you do") \/ Has(q, "what do you do")
    \/ Has(q, "what u do") \/ Has(q, "what can u do")
    \/ Test(Cat(<<Lit("what"), Star(Dot), Lit("do")>>), q)
    \/ Test(Cat(<<Lit("what"), Star(Dot), Lit("can")>>), q)
    \/ q = C("what u do") \/ q = C("what do you do") \/ q = C("what can you do")

\* the same rules, were the list rule tried before the greeting rule
detectIntentListFirst(asked) ==
    LET q == toLowerCase(C(asked))
    IN IF IsListIntent(q) THEN "list"
       ELSE IF Test(GreetingPattern, q) THEN "none"
       ELSE IF IsHelpIntent(q) THEN "help"
       ELSE "none"

\* which branch of detectIntent a question takes: the greeting branch returns
\* null like the last line does
detectIntent(asked) ==
    LET q == toLowerCase(C(asked))
    IN IF Test(GreetingPattern, q) THEN "none"
       ELSE IF IsListIntent(q) THEN "list"
       ELSE IF IsHelpIntent(q) THEN "help"
       ELSE "none"

\* q.includes('latest')
AsksLatest(asked) == Has(toLowerCase(C(asked)), "latest")

-----------------------------------------------------------------------------
(* Follow-up Classifier: isFollowUpQuestion *)

detailWords ==
    <<"date", "time", "location", "place", "contact", "number", "phone", "email",
      "website", "address", "price", "cost", "when", "where", "who", "what",
      "which", "how", "their", "they", "its", "the">>

eventKeywords ==
    <<"event", "festival", "concert", "show", "stadium", "venue", "location",
      "uppal", "holi", "colour">>

HasAny(q, ks) == \E k \in DOMAIN ks : Includes(q, C(ks[k]))

\* check a: a short question with a detail word, given some history
ShortWithDetailWord(q, h) ==
    /\ Len(splitBlanks(q)) <= 3
    /\ Len(h) > 0
    /\ HasAny(q, detailWords)

\* /^(tell|give|show|what).*(more|details|info|about)/i
AskShapePattern ==
    Cat(<<Bol, AnyOf(<<"tell", "give", "show", "what">>), Star(Dot),
          AnyOf(<<"more", "details", "info", "about">>)>>)

isAskingAboutEvent(q) ==
    \/ Has(q, "tell me more") \/ Has(q, "more about") \/ Has(q, "about the")
    \/ Has(q, "about this") \/ Has(q, "about that") \/ Has(q, "about")
    \/ Test(AskShapePattern, q)

\* recentMessages (the last 6 contents, lowercased, joined by blanks) includes
\* an event keyword; no keyword holds a blank, so it lies within one content
hasEventReference(h) ==
    \E i \in DOMAIN sliceLast(h, 6) :
        HasAny(toLowerCase(C(sliceLast(h, 6)[i].content)), eventKeywords)

\* check b: the recent turns name an event and the question asks about it
ReferencesEvent(q, h) ==
    Len(h) > 0 /\ hasEventReference(h) /\ isAskingAboutEvent(q)

DetailNouns ==
    <<"date", "time", "location", "place", "contact", "number", "price", "cost",
      "website", "email", "phone">>

followUpPatterns == <<
    Cat(<<Bol, AnyOf(<<"which", "what", "when", "where", "who", "whose">>),
          Plus(Cls(Blanks)), AnyOf(DetailNouns)>>),
    Cat(<<Bol, Opt(Cat(<<Lit("the"), Plus(Cls(Blanks))>>)),
          AnyOf(DetailNouns \o <<"address">>)>>),
    Cat(<<Bol, AnyOf(<<"their", "its", "his", "her", "they">>), Plus(Cls(Blanks))>>),
    Cat(<<Bol, AnyOf(<<"contact", "phone", "email", "website", "address", "price",
                       "cost", "date", "time", "location", "place">>)>>),
    Cat(<<Bol, AnyOf(<<"how much", "how long", "how many", "how far">>)>>),
    Cat(<<AnyOf(<<"contact", "phone">>), Star(Cls(Blanks)),
          Opt(AnyOf(<<"number", "details", "info">>)), Eol>>),
    Cat(<<Bol, AnyOf(<<"when", "where", "who", "what time", "what date">>)>>),
    Cat(<<Bol, AnyOf(<<"tell", "give", "show">>), Star(Dot),
          AnyOf(<<"more", "details", "info", "about">>)>>),
    Cat(<<Lit("more"), Plus(Cls(Blanks)), Lit("about")>>),
    Cat(<<Lit("about"), Plus(Cls(Blanks)), AnyOf(<<"the", "this", "that", "it">>)>>) >>

\* check c: followUpPatterns.some(pattern => pattern.test(q))
MatchesFollowUpPattern(q) ==
    \E k \in DOMAIN followUpPatterns : Test(followUpPatterns[k], q)

\* a classifier that tries its patterns only when there is some history
isFollowUpQuestionGivenHistory(asked, h) ==
    LET q == trim(toLowerCase(C(asked)))
    IN IF ShortWithDetailWord(q, h) THEN Value(TRUE)
       ELSE IF HasNull(sliceLast(h, 6)) THEN Thrown
       ELSE Value(Len(h) > 0 /\ (ReferencesEvent(q, h) \/ MatchesFollowUpPattern(q)))

\* reading msg.content of a null among the last 6 turns throws
isFollowUpQuestion(asked, h) ==
    LET q == trim(toLowerCase(C(asked)))
    IN IF ShortWithDetailWord(q, h) THEN Value(TRUE)
       ELSE IF HasNull(sliceLast(h, 6)) THEN Thrown
       ELSE Value(ReferencesEvent(q, h) \/ MatchesFollowUpPattern(q))

-----------------------------------------------------------------------------
(* History Answer Extractor: extractAnswerFromHistory.  A pattern with the *)
(* i flag runs on the lowercased content; the positions it finds are read  *)
(* off the content as written.                                             *)

\* what the extractor returns: null, or a sentence and the rule that made it
NoAnswer == [isNull |-> TRUE, rule |-> "none", text |-> <<>>]
Answer(rule, text) == [isNull |-> FALSE, rule |-> rule, text |-> text]

Spaces == Star(Cls(Blanks))
Spaces1 == Plus(Cls(Blanks))
Digits12 == Rep(Cls(Digits), 1, 2)
Digits2 == Rep(Cls(Digits), 2, 2)
AmPm == AnyOf(<<"am", "pm">>)

tellPatterns == <<
    Cat(<<Lit("tell"), Star(Dot), Lit("about")>>),
    Cat(<<Lit("tell"), Star(Dot), Lit("that")>>),
    Cat(<<Lit("tell"), Star(Dot), Lit("it")>>),
    Cat(<<Lit("tell"), Star(Dot), Lit("this")>>),
    Cat(<<Lit("say"), Star(Dot), Lit("about")>>),
    Cat(<<Lit("can"), Star(Dot), Lit("tell")>>),
    Cat(<<Lit("could"), Star(Dot), Lit("tell")>>) >>

hasTellPattern(q) == \E k \in DOMAIN tellPatterns : Test(tellPatterns[k], q)
hasAboutThat(q) == Has(q, "about") \/ Has(q, "that") \/ Has(q, "it") \/ Has(q, "this")

AsksToTell(q) == (Has(q, "tell") \/ Has(q, "say") \/ hasTellPattern(q)) /\ hasAboutThat(q)
AsksTime(q) == Has(q, "time") \/ (Has(q, "when") /\ ~Has(q, "date"))
AsksContact(q) ==
    Has(q, "contact") \/ (Has(q, "who") /\ Has(q, "contact")) \/ Has(q, "organizer")
AsksLocation(q) ==
    Has(q, "where") \/ Has(q, "location") \/ Has(q, "venue") \/ Has(q, "place")
AsksDate(q) == Has(q, "date") \/ (Has(q, "when") /\ Has(q, "date"))

ClockTime == Cat(<<Digits12, Lit(":"), Digits2>>)
HourOrClock == Alt(<<Cat(<<Digits12, Spaces, AmPm>>), ClockTime>>)

timePatterns == <<
    Cat(<<Digits12, Spaces, AmPm, Spaces, Opt(AnyOf(<<"to", "-">>)), Spaces,
          Digits12, Spaces, AmPm>>),
    Cat(<<ClockTime, Spaces, Opt(AmPm), Spaces, Opt(AnyOf(<<"to", "-">>)), Spaces,
          ClockTime, Spaces, Opt(AmPm)>>),
    Cat(<<Digits12, Spaces, AnyOf(<<"pm", "am">>), Spaces, Lit("to"), Spaces,
          Digits12, Spaces, AnyOf(<<"pm", "am">>)>>),
    Cat(<<Lit("from"), Spaces, HourOrClock, Spaces, Lit("to"), Spaces, HourOrClock>>) >>

\* [a-zA-Z0-9._%+-]+@[a-zA-Z0-9.-]+\.[a-zA-Z]{2,}
EmailAddress ==
    Cat(<<Plus(Cls(Letters \cup Digits \cup {".", "_", "%", "+", "-"})), Lit("@"),
          Plus(Cls(Letters \cup Digits \cup {".", "-"})), Lit("."),
          Rep(Cls(Letters), 2, Unbounded)>>)
\* \d{10,}
PhoneNumber == Rep(Cls(Digits), 10, Unbounded)

\* each pattern as what precedes its group, and the group
contactPatterns == <<
    [prefix |-> Cat(<<Lit("contact"), LazyStar(Dot)>>), group |-> EmailAddress],
    [prefix |-> Cat(<<Lit("email"), LazyStar(Dot)>>), group |-> EmailAddress],
    [prefix |-> Cat(<<Lit("phone"), LazyStar(Dot)>>), group |-> PhoneNumber],
    [prefix |-> Cat(<<Lit("call"), LazyStar(Dot)>>), group |-> PhoneNumber] >>

\* [A-Za-z][A-Za-z\s]+
PlaceWords == Cat(<<Cls(Letters), Plus(Cls(Letters \cup Blanks))>>)

VenueWord ==
    Alt(<<Lit("cafe"), Lit("stadium"), Lit("hall"), Lit("center"), Lit("theater"),
          Lit("park"), Lit("venue"), Lit("arena"), Lit("auditorium"), Lit("ground"),
          Lit("hotel"), Lit("restaurant"), Lit("club"), Lit("bar"), Lit("studio"),
          Lit("gallery"), Lit("mall"), Lit("plaza"), Lit("square"), Lit("garden"),
          Lit("beach"), Lit("resort"), Lit("academy"), Lit("institute"),
          Lit("school"), Lit("college"), Lit("university"), Lit("library"),
          Lit("museum"), Lit("theatre"), Lit("cinema"), Lit("field"),
          Cat(<<Lit("ground"), Opt(Lit("s"))>>)>>)

locationPatterns == <<
    [prefix |-> Cat(<<WordB, Lit("at"), Spaces1>>), group |-> PlaceWords],
    [prefix |-> Cat(<<Lit("happening"), Spaces1, AnyOf(<<"at", "in">>), Spaces1>>),
     group |-> PlaceWords],
    [prefix |-> Cat(<<AnyOf(<<"located", "takes place">>), Spaces1,
                      AnyOf(<<"at", "in">>), Spaces1>>),
     group |-> PlaceWords],
    [prefix |-> Cat(<<AnyOf(<<"venue", "location", "place">>), Lit(":"), Spaces>>),
     group |-> PlaceWords],
    [prefix |-> Cat(<<AnyOf(<<"at", "venue", "location", "place">>), Spaces1>>),
     group |-> Cat(<<Cls(Letters), Star(Cls(Letters \cup Blanks)), VenueWord>>)] >>

skipWords ==
    {C("the"), C("a"), C("an"), C("at"), C("in"), C("on"), C("for"), C("to"),
     C("from"), C("and"), C("or"), C("but"), C("it"), C("is"), C("was"), C("are"),
     C("were")}

\* the text before the first character of set
RECURSIVE CutAt(_, _)
CutAt(s, set) ==
    IF s = <<>> \/ Head(s) \in set THEN <<>>
    ELSE <<Head(s)>> \o CutAt(Tail(s), set)

\* location.replace(/[.,!?;:]+.*$/, '').trim(), then .split(/[.,!?]/)[0].trim()
CleanLocation(location) ==
    trim(CutAt(trim(CutAt(location, {".", ",", "!", "?", ";", ":"})),
               {".", ",", "!", "?"}))

\* location.replace(/[.,!?;:]+$/, '')
RECURSIVE StripTrailingMarks(_)
StripTrailingMarks(s) ==
    IF s # <<>> /\ s[Len(s)] \in {".", ",", "!", "?", ";", ":"}
    THEN StripTrailingMarks(SubSeq(s, 1, Len(s) - 1))
    ELSE s

\* /\bat\s+([A-Z][a-z]+(?:\s+[A-Z][a-z]+){0,2})/, case-sensitive
atLocationPattern ==
    [prefix |-> Cat(<<WordB, Lit("at"), Spaces1>>),
     group |-> Cat(<<Cls(UpperLetters), Plus(Cls(LowerLetters)),
                     Rep(Cat(<<Spaces1, Cls(UpperLetters), Plus(Cls(LowerLetters))>>),
                         0, 2)>>)]

\* /\bat\s+([A-Z][A-Za-z]+(?:\s+[A-Z][A-Za-z]+)*)/, case-sensitive
simpleAtPattern ==
    [prefix |-> Cat(<<WordB, Lit("at"), Spaces1>>),
     group |-> Cat(<<Cls(UpperLetters), Plus(Cls(Letters)),
                     Star(Cat(<<Spaces1, Cls(UpperLetters), Plus(Cls(Letters))>>))>>)]

Months ==
    AnyOf(<<"january", "february", "march", "april", "may", "june", "july",
            "august", "september", "october", "november", "december">>)
Ordinal == Opt(AnyOf(<<"st", "nd", "rd", "th">>))

datePatterns == <<
    Cat(<<Months, Spaces1, Digits12, Ordinal>>),
    Cat(<<Digits12, Ordinal, Spaces1, Months>>),
    Cat(<<Lit("on"), Spaces1, Plus(Cls(WordChars)), Spaces1, Digits12>>) >>

\* the first match among ms, the matches of the patterns in order
FirstFound(ms) ==
    IF \A k \in DOMAIN ms : ~ms[k].found THEN NoMatch
    ELSE ms[CHOOSE k \in DOMAIN ms :
                ms[k].found /\ \A j \in 1..(k - 1) : ~ms[j].found]

\* the first text among texts that is not empty
FirstNonEmpty(texts) ==
    IF \A k \in DOMAIN texts : texts[k] = <<>> THEN <<>>
    ELSE texts[CHOOSE k \in DOMAIN texts :
                   texts[k] # <<>> /\ \A j \in 1..(k - 1) : texts[j] = <<>>]

\* the first answer among answers that is not null
FirstAnswer(answers) ==
    IF \A k \in DOMAIN answers : answers[k].isNull THEN NoAnswer
    ELSE answers[CHOOSE k \in DOMAIN answers :
                     ~answers[k].isNull /\ \A j \in 1..(k - 1) : answers[j].isNull]

TimeSentence(m, content) ==
    IF m.found
    THEN Answer("time", C("The event is scheduled ") \o Span(m, content) \o C("."))
    ELSE NoAnswer

TimeAnswer(content) ==
    TimeSentence(FirstFound([k \in DOMAIN timePatterns |->
                                Match(timePatterns[k], toLowerCase(content))]),
                 content)

ContactSentence(m, content) ==
    IF m.found
    THEN Answer("contact", C("You can contact them at ") \o Span(m, content) \o C("."))
    ELSE NoAnswer

CaptureBy(p, s) == Capture(p.prefix, p.group, s)

ContactAnswer(content) ==
    ContactSentence(FirstFound([k \in DOMAIN contactPatterns |->
                                   CaptureBy(contactPatterns[k], toLowerCase(content))]),
                    content)

\* location.length > 2 && !skipWords.includes(locationLower)
CheckedLocation(location) ==
    IF Len(location) > 2 /\ toLowerCase(location) \notin skipWords
    THEN location ELSE <<>>

CleanedSpan(m, content) ==
    IF m.found THEN CleanLocation(trim(Span(m, content))) ELSE <<>>

\* what one of locationPatterns yields on content, if it passes the check
LocationBy(p, content) ==
    CheckedLocation(CleanedSpan(CaptureBy(p, toLowerCase(content)), content))

\* location.length > 3 && location.match(/^[A-Z]/)
CheckedBroadLocation(location) ==
    IF Len(location) > 3 /\ IsUpper(location[1]) THEN location ELSE <<>>

StrippedSpan(m, content) ==
    IF m.found THEN trim(StripTrailingMarks(trim(Span(m, content)))) ELSE <<>>

\* the two case-sensitive fallbacks behind the loop over locationPatterns
atLocationMatch(content) ==
    CheckedBroadLocation(StrippedSpan(CaptureBy(atLocationPattern, content), content))

simpleAtMatch(content) ==
    CheckedBroadLocation(
        trim(CutAt(StrippedSpan(CaptureBy(simpleAtPattern, content), content),
                   {".", ",", "!", "?"})))

LocationSentence(location) ==
    IF location = <<>> THEN NoAnswer
    ELSE Answer("location", C("The event is happening at ") \o location \o C("."))

LocationAnswer(content) ==
    LocationSentence(
        FirstNonEmpty([j \in DOMAIN locationPatterns |->
                          LocationBy(locationPatterns[j], content)]
                      \o <<atLocationMatch(content), simpleAtMatch(content)>>))

DateSentence(m, content) ==
    IF m.found
    THEN Answer("date", C("The event is on ") \o Span(m, content) \o C("."))
    ELSE NoAnswer

DateAnswer(content) ==
    DateSentence(FirstFound([k \in DOMAIN datePatterns |->
                                Match(datePatterns[k], toLowerCase(content))]),
                 content)

\* the rules tried on one assistant turn, in the order of the loop body
AnswerFromTurn(q, content) ==
    FirstAnswer(<<
        IF AsksToTell(q) /\ Len(content) > 30 THEN Answer("tell", content) ELSE NoAnswer,
        IF AsksTime(q) THEN TimeAnswer(content) ELSE NoAnswer,
        IF AsksContact(q) THEN ContactAnswer(content) ELSE NoAnswer,
        IF AsksLocation(q) THEN LocationAnswer(content) ELSE NoAnswer,
        IF AsksDate(q) THEN DateAnswer(content) ELSE NoAnswer >>)

\* what each turn yields: an answer from an assistant turn with content
TurnAnswers(q, h) ==
    [i \in DOMAIN h |->
        IF h[i] # NullTurn /\ h[i].role = "ai" /\ h[i].content # ""
        THEN AnswerFromTurn(q, C(h[i].content))
        ELSE NoAnswer]

\* a loop from the oldest turn up
ScanTurnsOldestFirst(h, answers) ==
    IF \A i \in DOMAIN h : h[i] # NullTurn /\ answers[i].isNull
    THEN Value(NoAnswer)
    ELSE LET i == CHOOSE i \in DOMAIN h :
                      /\ h[i] = NullTurn \/ ~answers[i].isNull
                      /\ \A j \in DOMAIN h :
                            j < i => h[j] # NullTurn /\ answers[j].isNull
         IN IF h[i] = NullTurn THEN Thrown ELSE Value(answers[i])

\* the loop from the most recent turn down: it ends at the first turn that
\* yields an answer, and throws at a null turn it comes to before that
ScanTurns(h, answers) ==
    IF \A i \in DOMAIN h : h[i] # NullTurn /\ answers[i].isNull
    THEN Value(NoAnswer)
    ELSE LET i == CHOOSE i \in DOMAIN h :
                      /\ h[i] = NullTurn \/ ~answers[i].isNull
                      /\ \A j \in DOMAIN h :
                            j > i => h[j] # NullTurn /\ answers[j].isNull
         IN IF h[i] = NullTurn THEN Thrown ELSE Value(answers[i])

extractAnswerFromHistory(asked, h) ==
    IF Len(h) < 2 THEN Value(NoAnswer)
    ELSE ScanTurns(h, TurnAnswers(trim(toLowerCase(C(asked))), h))

-----------------------------------------------------------------------------
(* The document store as the retriever sees it.  Which documents a query   *)
(* matches is the store's business: a search answers with any documents of *)
(* the collection, at most as many as were asked for.                      *)

Range(f) == {f[i] : i \in DOMAIN f}

IsInjective(f) == \A i, j \in DOMAIN f : f[i] = f[j] => i = j
IsIncreasing(f) == \A i, j \in DOMAIN f : i < j => f[i] < f[j]

IndexLists(n) == UNION {[1..k -> 1..Len(store)] : k \in 0..n}

\* $vectorSearch with limit: limit * 2, in order of similarity (any order)
VectorAnswers(lim) ==
    {[i \in DOMAIN ix |-> store[ix[i]]] :
        ix \in {f \in IndexLists(Min(MaxVec, 2 * lim)) : IsInjective(f)}}

\* find(...).limit(limit * 2), in the collection's natural order
KeywordAnswers(lim) ==
    {[i \in DOMAIN ix |-> store[ix[i]]] :
        ix \in {f \in IndexLists(Min(MaxKw, 2 * lim)) : IsIncreasing(f)}}

-----------------------------------------------------------------------------
(* What a call ends with *)

\* an answer: the sentence template used and what is interpolated into it
Ans(kind, text, count, items) ==
    [kind |-> kind, text |-> text, count |-> count, items |-> items]

NoAns == Ans("none", <<>>, 0, <<>>)

\* the call is still running
Pending == [outcome |-> "pending", answer |-> NoAns, sources |-> <<>>]
\* the promise resolves with {answer, sources}
Returned(answer, sources) ==
    [outcome |-> "returned", answer |-> answer, sources |-> sources]
\* the promise rejects
Rejected == [outcome |-> "thrown", answer |-> NoAns, sources |-> <<>>]

\* no helper function is being called on its own
NoCall == [fn |-> "none"]
\* the helper function called on its own has not returned
NotReturned == [done |-> FALSE]
\* the helper function called on its own returned v
ReturnedValue(v) == [done |-> TRUE, value |-> v]

-----------------------------------------------------------------------------
(* retrieveRelevantEvents(queryEmbedding, queryText, limit) *)

\* the vector search returns
VectorSearchReturns ==
    /\ pc = "vector"
    /\ queryEmbedding
    /\ \E answer \in VectorAnswers(limit) : vectorResults' = answer
    /\ calls' = Append(calls, "vector")
    /\ pc' = "keyword"
    /\ UNCHANGED <<unitVars, store, queryEmbedding, queryText, limit, keywordResults,
                   vectorFailed, keywordFailed, retrieved, chatVars>>

\* the vector search throws: caught by the inner try, vectorResults stays []
VectorSearchThrows ==
    /\ pc = "vector"
    /\ queryEmbedding
    /\ vectorFailed' = TRUE
    /\ calls' = Append(calls, "vector")
    /\ pc' = "keyword"
    /\ UNCHANGED <<unitVars, store, queryEmbedding, queryText, limit, vectorResults,
                   keywordResults, keywordFailed, retrieved, chatVars>>

\* no query vector: the vector search is not issued
VectorSearchSkipped ==
    /\ pc = "vector"
    /\ ~queryEmbedding
    /\ pc' = "keyword"
    /\ UNCHANGED <<unitVars, retrieveVars, chatVars, calls>>

\* empty query text: no keyword search, the vector candidates are merged alone
KeywordSearchSkipped ==
    /\ pc = "keyword"
    /\ queryText = ""
    /\ retrieved' = MergeFilterRank(vectorResults, keywordResults, limit)
    /\ pc' = "retrieved"
    /\ UNCHANGED <<unitVars, store, queryEmbedding, queryText, limit, vectorResults,
                   keywordResults, vectorFailed, keywordFailed, chatVars, calls>>

\* the keyword search returns; merge, filter, sort and slice follow at once
KeywordSearchReturns ==
    /\ pc = "keyword"
    /\ queryText # ""
    /\ ~KeywordRegExpThrows(queryText)
    /\ \E answer \in KeywordAnswers(limit) :
          /\ keywordResults' = answer
          /\ retrieved' = MergeFilterRank(vectorResults, answer, limit)
    /\ calls' = Append(calls, "keyword")
    /\ pc' = "retrieved"
    /\ UNCHANGED <<unitVars, store, queryEmbedding, queryText, limit, vectorResults,
                   vectorFailed, keywordFailed, chatVars>>

\* new RegExp or the find throws: the function's outer catch returns []
KeywordSearchThrows ==
    /\ pc = "keyword"
    /\ queryText # ""
    /\ keywordFailed' = TRUE
    /\ retrieved' = <<>>
    /\ calls' = Append(calls, "keyword")
    /\ pc' = "retrieved"
    /\ UNCHANGED <<unitVars, store, queryEmbedding, queryText, limit, vectorResults,
                   keywordResults, vectorFailed, chatVars>>

RetrieveStep ==
    \/ VectorSearchReturns
    \/ VectorSearchThrows
    \/ VectorSearchSkipped
    \/ KeywordSearchSkipped
    \/ KeywordSearchReturns
    \/ KeywordSearchThrows

\* query texts retrieveRelevantEvents is exercised with
RetrieveTexts == {"", "jazz in Goa", "c++ fest", "("}

InitRetrieve ==
    /\ store = RetrieveStore
    /\ queryEmbedding \in BOOLEAN
    /\ queryText \in RetrieveTexts
    /\ limit \in 1..MaxLimit
    /\ vectorResults = <<>>
    /\ keywordResults = <<>>
    /\ vectorFailed = FALSE
    /\ keywordFailed = FALSE
    /\ retrieved = <<>>
    /\ question = queryText
    /\ history = <<>>
    /\ user = "none"
    /\ isFollowUp = FALSE
    /\ relevantEvents = <<>>
    /\ generation = "none"
    /\ caught = FALSE
    /\ standardResult = Pending
    /\ result = Pending
    /\ calls = <<>>
    /\ pc = "vector"
    /\ arg = NoCall
    /\ ret = NotReturned

NextRetrieve == RetrieveStep

\* retrieveRelevantEvents called on its own, over every argument in the bounds
SpecRetrieve == InitRetrieve /\ [][NextRetrieve]_vars

-----------------------------------------------------------------------------
(* getChatResponse(question, conversationHistory, user) *)

\* retrieveRelevantEvents(queryEmbedding, queryText, limit = 20)
DefaultLimit == 20
\* detectIntent: .limit(50)
ListLimit == 50
\* performStandardSearch: .limit(50)
StandardLimit == 50

\* user?.displayName of a logged-in user who has one
displayName == C("Ana")

\* the gate without its check of the identity
NameGateWhoeverAsks == shouldAskForName(history)

\* !user && shouldAskForName(conversationHistory)
NameGate == IF user # "none" THEN Value(FALSE) ELSE shouldAskForName(history)

\* !user && isNameResponse(conversationHistory)
NameGiven == IF user # "none" THEN Value(FALSE) ELSE isNameResponse(history)

\* steps 0 and 0.5 neither returned nor threw
PastNameSteps ==
    /\ NameGate = Value(FALSE)
    /\ ~NameGiven.throws
    /\ ~(NameGiven.value /\ extractUserName(C(question)) # <<>>)

\* user?.displayName || getUserName(conversationHistory)
NameLookup == IF user = "named" THEN Value(displayName) ELSE getUserName(history)

Classified == isFollowUpQuestion(question, history)

\* no fixed intent matched, and step 2 classified the question without throwing
PastClassification ==
    /\ PastNameSteps
    /\ detectIntent(question) = "none"
    /\ ~NameLookup.throws
    /\ ~Classified.throws

\* the same guard, were it to ask for more than the current turn in the history
SkipsRetrievalOnLongHistory(followUp, h) == followUp /\ Len(h) > 1

\* isFollowUp && conversationHistory.length > 0
SkipsRetrieval(followUp, h) == followUp /\ Len(h) > 0

\* step 5 reads msg.role of each of the last 10 turns: a null turn throws
ContextThrows == HasNull(sliceLast(history, 10))

\* sort({_id: -1}): the documents by descending _id
byIdDescending(docs) ==
    [i \in DOMAIN docs |->
        CHOOSE x \in Range(docs) : Cardinality({y \in Range(docs) : y > x}) = i - 1]

\* find({}).sort(sortOrder).limit(50).toArray()
ListedEvents ==
    slice0(IF AsksLatest(question) THEN byIdDescending(store) ELSE store, ListLimit)

\* step 0 returns the name request
AskForName ==
    /\ pc = "start"
    /\ NameGate = Value(TRUE)
    /\ result' = Returned(Ans("askName", C("what is ur name"), 0, <<>>), <<>>)
    /\ pc' = "done"
    /\ UNCHANGED <<unitVars, retrieveVars, chatArgs, isFollowUp, relevantEvents, generation,
                   caught, standardResult, calls>>

\* step 0.5 returns the acknowledgement of the name
AcknowledgeName ==
    /\ pc = "start"
    /\ NameGate = Value(FALSE)
    /\ NameGiven = Value(TRUE)
    /\ extractUserName(C(question)) # <<>>
    /\ result' = Returned(Ans("niceToMeet", extractUserName(C(question)), 0, <<>>), <<>>)
    /\ pc' = "done"
    /\ UNCHANGED <<unitVars, retrieveVars, chatArgs, isFollowUp, relevantEvents, generation,
                   caught, standardResult, calls>>

\* step 1, list intent: the find returns
ListIntentReturns ==
    /\ pc = "start"
    /\ PastNameSteps
    /\ detectIntent(question) = "list"
    /\ result' = Returned(Ans(IF AsksLatest(question) THEN "latest" ELSE "listed",
                              <<>>, Len(ListedEvents), <<>>),
                          ListedEvents)
    /\ calls' = Append(calls, "find")
    /\ pc' = "done"
    /\ UNCHANGED <<unitVars, retrieveVars, chatArgs, isFollowUp, relevantEvents, generation,
                   caught, standardResult>>

\* step 1, list intent: the find throws, into the outer catch
ListIntentThrows ==
    /\ pc = "start"
    /\ PastNameSteps
    /\ detectIntent(question) = "list"
    /\ calls' = Append(calls, "find")
    /\ pc' = "catch"
    /\ UNCHANGED <<unitVars, retrieveVars, chatVars>>

\* step 1, help intent
HelpIntent ==
    /\ pc = "start"
    /\ PastNameSteps
    /\ detectIntent(question) = "help"
    /\ result' = Returned(Ans("help", <<>>, 0, <<>>), <<>>)
    /\ pc' = "done"
    /\ UNCHANGED <<unitVars, retrieveVars, chatArgs, isFollowUp, relevantEvents, generation,
                   caught, standardResult, calls>>

\* a null turn makes a step before retrieval throw a TypeError
HistoryThrows ==
    /\ pc = "start"
    /\ \/ NameGate.throws
       \/ NameGate = Value(FALSE) /\ NameGiven.throws
       \/ /\ PastNameSteps
          /\ detectIntent(question) = "none"
          /\ NameLookup.throws \/ Classified.throws
    /\ pc' = "catch"
    /\ UNCHANGED <<unitVars, retrieveVars, chatVars, calls>>

\* step 2, follow-up branch: no retrieval; steps 4 and 5 follow at once
FollowUpSkipsRetrieval ==
    /\ pc = "start"
    /\ PastClassification
    /\ SkipsRetrieval(Classified.value, history)
    /\ isFollowUp' = Classified.value
    /\ relevantEvents' = <<>>
    /\ pc' = IF ContextThrows THEN "catch" ELSE "generate"
    /\ UNCHANGED <<unitVars, retrieveVars, chatArgs, generation, caught, standardResult,
                   result, calls>>

\* step 3: generateEmbedding returns a vector, retrieveRelevantEvents starts
EmbeddingReturns ==
    /\ pc = "start"
    /\ PastClassification
    /\ ~SkipsRetrieval(Classified.value, history)
    /\ isFollowUp' = Classified.value
    /\ queryEmbedding' = TRUE
    /\ queryText' = question
    /\ limit' = DefaultLimit
    /\ calls' = calls \o <<"embed", "retrieve">>
    /\ pc' = "vector"
    /\ UNCHANGED <<unitVars, store, vectorResults, keywordResults, vectorFailed,
                   keywordFailed, retrieved, chatArgs, relevantEvents, generation,
                   caught, standardResult, result>>

\* the same step, were generateEmbedding to let its failure escape
EmbeddingFailureEscapes ==
    /\ pc = "start"
    /\ PastClassification
    /\ ~SkipsRetrieval(Classified.value, history)
    /\ isFollowUp' = Classified.value
    /\ calls' = Append(calls, "embed")
    /\ pc' = "catch"
    /\ UNCHANGED <<unitVars, retrieveVars, chatArgs, relevantEvents, generation,
                   caught, standardResult, result>>

\* step 3: generateEmbedding catches its failure and returns null
EmbeddingFails ==
    /\ pc = "start"
    /\ PastClassification
    /\ ~SkipsRetrieval(Classified.value, history)
    /\ isFollowUp' = Classified.value
    /\ queryEmbedding' = FALSE
    /\ queryText' = question
    /\ limit' = DefaultLimit
    /\ calls' = calls \o <<"embed", "retrieve">>
    /\ pc' = "vector"
    /\ UNCHANGED <<unitVars, store, vectorResults, keywordResults, vectorFailed,
                   keywordFailed, retrieved, chatArgs, relevantEvents, generation,
                   caught, standardResult, result>>

\* retrieveRelevantEvents has returned: relevantEvents is assigned, its locals
\* are gone; steps 4 and 5 follow at once
RetrievalReturns ==
    /\ pc = "retrieved"
    /\ relevantEvents' = retrieved
    /\ vectorResults' = <<>>
    /\ keywordResults' = <<>>
    /\ retrieved' = <<>>
    /\ pc' = IF ContextThrows THEN "catch" ELSE "generate"
    /\ UNCHANGED <<unitVars, store, queryEmbedding, queryText, limit, vectorFailed,
                   keywordFailed, chatArgs, isFollowUp, generation, caught,
                   standardResult, result, calls>>

\* the same sources, were a follow-up to show what was fetched
SourcesShownAlways(followUp, events) == events

\* sources: isFollowUp ? [] : relevantEvents
SourcesShown(followUp, events) == IF followUp THEN <<>> ELSE events

Extracted == extractAnswerFromHistory(question, history)

\* a fallback that never asks the extractor
FallbackWithoutExtractor(followUp, events, extracted) ==
    IF ~followUp /\ Len(events) > 0
    THEN Returned(Ans("summary", <<>>, Len(events), slice0(events, 3)), events)
    ELSE Returned(Ans(IF followUp THEN "trouble"
                      ELSE IF Len(events) > 0 THEN "foundGeneric" ELSE "notFound",
                      <<>>, Len(events), <<>>),
                  SourcesShown(followUp, events))

\* the same fallbacks, were the summary to itemize every event
FallbackItemizingAll(followUp, events, extracted) ==
    IF followUp /\ ~extracted.isNull
    THEN Returned(Ans("extracted", extracted.text, 0, <<>>), <<>>)
    ELSE IF ~followUp /\ Len(events) > 0
    THEN Returned(Ans("summary", <<>>, Len(events), events), events)
    ELSE Returned(Ans(IF followUp THEN "trouble" ELSE "notFound",
                      <<>>, Len(events), <<>>),
                  SourcesShown(followUp, events))

\* the fallbacks after a failed generation, the same in the try and the catch
FallbackResult(followUp, events, extracted) ==
    IF followUp /\ ~extracted.isNull
    THEN Returned(Ans("extracted", extracted.text, 0, <<>>), <<>>)
    ELSE IF ~followUp /\ Len(events) > 0
    THEN Returned(Ans("summary", <<>>, Len(events), slice0(events, 3)), events)
    ELSE Returned(Ans(IF followUp THEN "trouble"
                      ELSE IF Len(events) > 0 THEN "foundGeneric" ELSE "notFound",
                      <<>>, Len(events), <<>>),
                  SourcesShown(followUp, events))

\* the same, were the inner catch to lack the attempt on the history that the
\* try block makes
FailedGenerationUnlikeInCatch(kind, extracted) ==
    /\ generation' = kind
    /\ calls' = calls \o <<"generate">>
                \o (IF isFollowUp /\ kind = "noProvider" THEN <<"extract">> ELSE <<>>)
    /\ IF isFollowUp /\ extracted.throws /\ kind = "noProvider"
       THEN pc' = "catch" /\ UNCHANGED result
       ELSE /\ result' = IF kind = "noProvider"
                         THEN FallbackResult(isFollowUp, relevantEvents, extracted.value)
                         ELSE FallbackWithoutExtractor(isFollowUp, relevantEvents,
                                                       extracted.value)
            /\ pc' = "done"
    /\ UNCHANGED <<unitVars, retrieveVars, chatArgs, isFollowUp, relevantEvents, caught,
                   standardResult>>

\* sources and answer once generation has failed; extractAnswerFromHistory
\* throwing on a null turn leaves the try for the chat catch, where it is
\* called again, and the chat catch for the outer catch
FailedGeneration(kind, extracted) ==
    /\ generation' = kind
    /\ calls' = calls \o <<"generate">>
                \o (IF isFollowUp THEN <<"extract">> ELSE <<>>)
                \o (IF isFollowUp /\ extracted.throws /\ kind = "noProvider"
                    THEN <<"extract">> ELSE <<>>)
    /\ IF isFollowUp /\ extracted.throws
       THEN pc' = "catch" /\ UNCHANGED result
       ELSE /\ result' = FallbackResult(isFollowUp, relevantEvents, extracted.value)
            /\ pc' = "done"
    /\ UNCHANGED <<unitVars, retrieveVars, chatArgs, isFollowUp, relevantEvents, caught,
                   standardResult>>

\* step 6: a provider reports success
GenerationSucceeds ==
    /\ pc = "generate"
    /\ generation' = "success"
    /\ calls' = Append(calls, "generate")
    /\ result' = Returned(Ans("generated", <<>>, 0, <<>>),
                          SourcesShown(isFollowUp, relevantEvents))
    /\ pc' = "done"
    /\ UNCHANGED <<unitVars, retrieveVars, chatArgs, isFollowUp, relevantEvents, caught,
                   standardResult>>

\* step 6: the response is ok but no provider reports success
GenerationNoProvider ==
    /\ pc = "generate"
    /\ FailedGeneration("noProvider", Extracted)

\* the same step, were a failed request sent again
GenerationThrowsAndRetries ==
    /\ pc = "generate"
    /\ generation' \in {"fetchThrows", "parseThrows", "httpError"}
    /\ calls' = Append(calls, "generate")
    /\ UNCHANGED <<unitVars, retrieveVars, chatArgs, isFollowUp, relevantEvents, caught,
                   standardResult, result, pc>>

\* step 6: fetch throws, the body does not parse, or the status is not ok
GenerationThrows ==
    /\ pc = "generate"
    /\ \E kind \in {"fetchThrows", "parseThrows", "httpError"} :
          FailedGeneration(kind, Extracted)

\* the same catch, were it to go to performStandardSearch whatever was fetched
CatchResultStandardOnly(events, standard) == standard

\* what the outer catch returns, given how performStandardSearch would end
CatchResult(events, standard) ==
    IF Len(events) > 0
    THEN Returned(Ans("foundGeneric", <<>>, Len(events), <<>>), events)
    ELSE standard

\* the outer catch with events fetched earlier
CatchReturnsEvents ==
    /\ pc = "catch"
    /\ Len(relevantEvents) > 0
    /\ caught' = TRUE
    /\ result' = CatchResult(relevantEvents, Pending)
    /\ pc' = "done"
    /\ UNCHANGED <<unitVars, retrieveVars, chatArgs, isFollowUp, relevantEvents, generation,
                   standardResult, calls>>

\* characters that are not literal in a regular expression
IsLiteralPattern(s) == \A i \in DOMAIN s : s[i] \notin {".", "(", ")", "+", "*", "?"}

\* what the find of performStandardSearch may answer: documents in natural
\* order, among them every document whose name holds the query as it is written
StandardAnswers ==
    {SelectSeq(store, LAMBDA e : e \in S) :
        S \in {T \in SUBSET Range(store) :
                 /\ Cardinality(T) <= StandardLimit
                 /\ IsLiteralPattern(C(question)) =>
                       \A e \in Range(store) :
                           Includes(toLowerCase(Doc(e).event_name),
                                    toLowerCase(C(question))) => e \in T}}

\* the outer catch without events: performStandardSearch returns
StandardSearchReturns ==
    /\ pc = "catch"
    /\ Len(relevantEvents) = 0
    /\ RegExpCompiles(C(question))
    /\ \E results \in StandardAnswers :
          /\ standardResult' =
                 Returned(Ans(IF Len(results) > 0 THEN "standardFound"
                              ELSE "standardNone",
                              C(question), Len(results), <<>>),
                          results)
          /\ result' = CatchResult(relevantEvents, standardResult')
    /\ caught' = TRUE
    /\ calls' = Append(calls, "standard")
    /\ pc' = "done"
    /\ UNCHANGED <<unitVars, retrieveVars, chatArgs, isFollowUp, relevantEvents, generation>>

\* the outer catch without events: new RegExp(query) or the find throws,
\* performStandardSearch rethrows, and so does getChatResponse
StandardSearchThrows ==
    /\ pc = "catch"
    /\ Len(relevantEvents) = 0
    /\ standardResult' = Rejected
    /\ result' = CatchResult(relevantEvents, standardResult')
    /\ caught' = TRUE
    /\ calls' = Append(calls, "standard")
    /\ pc' = "done"
    /\ UNCHANGED <<unitVars, retrieveVars, chatArgs, isFollowUp, relevantEvents, generation>>

\* questions getChatResponse is exercised with
Questions ==
    {"", "all events", "all events (", "latest events", "help", "hello",
     "what time?", "where is it?", "jazz in Goa", "c++ fest",
     "which date?", "tell me about that", "Sam", "hi all events"}

\* conversations that precede the current user turn
Greeted == <<UserTurn("hello"), AiTurn("what is ur name")>>
Introduced ==
    Greeted \o <<UserTurn("Sam"),
                 AiTurn("Nice to meet you, Sam! Now, how can I help you with events today?")>>
Discussed ==
    Introduced \o <<UserTurn("jazz in Goa"),
                    AiTurn("It runs 10am to 2pm at Elements Cafe tonight.")>>
Informed ==
    <<UserTurn("hello"), AiTurn("It runs 10am to 2pm at Elements Cafe tonight.")>>
\* a caller's array may hold a null where a turn belongs
NullOldest == <<NullTurn>> \o Discussed
NullRecent == <<UserTurn("hello"), NullTurn>>
\* a null further back than the ten turns step 5 reads
NullLongAgo == <<NullTurn>> \o Greeted \o Greeted \o Discussed

\* the assistant asks for the name after it gave details
AskedLate == Informed \o Greeted
\* a conversation the assistant opened
Told == <<AiTurn("It runs 10am to 2pm at Elements Cafe tonight.")>>

\* a detail given long ago: twelve turns, the detail in the second
SmallTalk == <<UserTurn("hello"), AiTurn("Hello again!")>>
LongAgo == Informed \o SmallTalk \o SmallTalk \o SmallTalk \o SmallTalk \o SmallTalk

\* the histories a question arrives with: none, the assistant's opening turn
\* alone, or the conversation so far with the question as its last turn
HistoriesOf(q) ==
    {<<>>, Told}
    \cup {prior \o <<UserTurn(q)>> :
             prior \in {<<>>, Greeted, Discussed, Informed, AskedLate, Told,
                        NullOldest, NullRecent, NullLongAgo, LongAgo}}

\* no identity, an identity with a displayName, an identity without one
Users == {"none", "named", "unnamed"}

Init ==
    /\ store = ChatStore
    /\ queryEmbedding = FALSE
    /\ queryText = ""
    /\ limit = DefaultLimit
    /\ vectorResults = <<>>
    /\ keywordResults = <<>>
    /\ vectorFailed = FALSE
    /\ keywordFailed = FALSE
    /\ retrieved = <<>>
    /\ question \in Questions
    /\ history \in HistoriesOf(question)
    /\ user \in Users
    /\ isFollowUp = FALSE
    /\ relevantEvents = <<>>
    /\ generation = "none"
    /\ caught = FALSE
    /\ standardResult = Pending
    /\ result = Pending
    /\ calls = <<>>
    /\ pc = "start"
    /\ arg = NoCall
    /\ ret = NotReturned

Next ==
    \/ AskForName
    \/ AcknowledgeName
    \/ ListIntentReturns
    \/ ListIntentThrows
    \/ HelpIntent
    \/ HistoryThrows
    \/ FollowUpSkipsRetrieval
    \/ EmbeddingReturns
    \/ EmbeddingFails
    \/ RetrieveStep
    \/ RetrievalReturns
    \/ GenerationSucceeds
    \/ GenerationNoProvider
    \/ GenerationThrows
    \/ CatchReturnsEvents
    \/ StandardSearchReturns
    \/ StandardSearchThrows

\* one call of getChatResponse, over every question, history and identity of
\* the catalogues and every outcome of the store and the services
Spec == Init /\ [][Next]_vars

-----------------------------------------------------------------------------
(* Helper functions called on their own.  arg holds the arguments, ret     *)
(* what the function returned; nothing else is running.                    *)

\* retrieveRelevantEvents is not running
IdleRetriever ==
    /\ store = RetrieveStore
    /\ queryEmbedding = FALSE
    /\ queryText = ""
    /\ limit = DefaultLimit
    /\ vectorResults = <<>>
    /\ keywordResults = <<>>
    /\ vectorFailed = FALSE
    /\ keywordFailed = FALSE
    /\ retrieved = <<>>

\* getChatResponse is not running
IdleChat ==
    /\ isFollowUp = FALSE
    /\ relevantEvents = <<>>
    /\ generation = "none"
    /\ caught = FALSE
    /\ standardResult = Pending
    /\ result = Pending
    /\ calls = <<>>

\* a stored document as the scorer receives it: event_details may be absent
RawEvent(hasDetails, details) == [hasDetails |-> hasDetails, details |-> details]

\* const details = event.event_details || {}
detailsOf(event) ==
    IF event.hasDetails THEN event.details
    ELSE Rec(event.details.id, None, None, None, None, None, None)

PaddedNA == <<" ","N","/","A">>

\* names the scorer is called with: absent, placeholders, short, acronyms, long
NameValues ==
    {None, NA, Blank, PaddedNA, <<"a">>, <<"a","b">>, <<"A","B">>, <<"t","h","e">>,
     <<"T","H","E">>, <<" ","A","B"," ">>, <<"E","x","p","o">>, <<"E","X","P","O">>,
     <<"A","B","C","D","E">>, <<"H","o","l","i"," ","F","e","s","t">>}

\* values of another field: absent, placeholders, a value
FieldValues(v) == {None, NA, Blank, v}

ScoredEvents ==
    {RawEvent(FALSE, Rec(0, None, None, None, None, None, None))}
    \cup {RawEvent(TRUE, Rec(0, n, d, l, t, o, w)) :
            n \in NameValues, d \in FieldValues(D1) \cup {PaddedNA},
            l \in FieldValues(L1), t \in FieldValues(T1),
            o \in FieldValues(O1), w \in FieldValues(W1)}

\* calculateEventQuality on a record
InitScore ==
    /\ IdleRetriever
    /\ IdleChat
    /\ question = ""
    /\ history = <<>>
    /\ user = "none"
    /\ \E e \in ScoredEvents : arg = [fn |-> "score", event |-> e]
    /\ ret = NotReturned
    /\ pc = "score"

Score ==
    /\ pc = "score"
    /\ ret' = ReturnedValue(calculateEventQuality(detailsOf(arg.event)))
    /\ pc' = "scored"
    /\ UNCHANGED <<retrieveVars, chatVars, calls, arg>>

NextScore == Score

SpecScore == InitScore /\ [][NextScore]_vars

\* most words of a query text handed to the keyword extraction on its own
MaxWords == 3

\* words of a query: capitalised, short, stop-words, mixed with other marks
QueryWords == {C("Jazz"), C("in"), C("The"), C("fest"), C("GOA"), C("c++")}

\* what closes a query
QueryEndings == {C(""), C("?"), C(", ")}

WordLists == UNION {[1..k -> QueryWords] : k \in 0..MaxWords}

\* the keyword extraction of retrieveRelevantEvents on a query text
InitKeywords ==
    /\ IdleRetriever
    /\ IdleChat
    /\ question = ""
    /\ history = <<>>
    /\ user = "none"
    /\ \E w \in WordLists, e \in QueryEndings :
          arg = [fn |-> "keywords", words |-> w, text |-> joinBlank(w) \o e]
    /\ ret = NotReturned
    /\ pc = "keywords"

ExtractKeywords ==
    /\ pc = "keywords"
    /\ ret' = ReturnedValue(keywordsOf(arg.text))
    /\ pc' = "extracted"
    /\ UNCHANGED <<retrieveVars, chatVars, calls, arg>>

NextKeywords == ExtractKeywords

SpecKeywords == InitKeywords /\ [][NextKeywords]_vars

\* what a helper function ended with: a value, or an exception
Outcome(r) == [done |-> TRUE, throws |-> r.throws, value |-> r.value]

\* questions the classifier is called with, beside those of getChatResponse
ClassifierQuestions ==
    Questions \cup {"show me all events", "whatever works", "their prices",
                    "the venue", "anything about jazz tonight please"}

\* the conversations so far, with and without the current turn at their end
ConversationsWith(q) ==
    HistoriesOf(q) \cup {Greeted, Discussed, Informed, NullOldest, NullRecent,
                         NullLongAgo}

\* isFollowUpQuestion on a question and a history
InitClassify ==
    /\ IdleRetriever
    /\ IdleChat
    /\ question \in ClassifierQuestions
    /\ history \in ConversationsWith(question)
    /\ user = "none"
    /\ arg = [fn |-> "isFollowUpQuestion"]
    /\ ret = NotReturned
    /\ pc = "classify"

Classify ==
    /\ pc = "classify"
    /\ ret' = Outcome(Classified)
    /\ pc' = "classified"
    /\ UNCHANGED <<retrieveVars, chatVars, calls, arg>>

NextClassify == Classify

SpecClassify == InitClassify /\ [][NextClassify]_vars

\* conversations in which the assistant gave details more than once
Rescheduled ==
    Discussed \o <<UserTurn("is that final"),
                   AiTurn("Doors open 6pm to 9pm on May 5.")>>
Moved ==
    Discussed \o <<UserTurn("still there"),
                   AiTurn("It moved, now at Town Hall instead.")>>
Contacted ==
    Discussed \o <<UserTurn("who runs it"),
                   AiTurn("For details contact sam@x.io or phone 9876543210."),
                   UserTurn("ok"), AiTurn("")>>

\* questions the extractor is called with
ExtractorQuestions ==
    {"what time?", "where is it?", "which date?", "tell me about that",
     "where and what time?", "who is the contact?", "hello", "jazz in Goa"}

\* the histories the extractor is called with, the current turn at their end
\* or not
ExtractorHistories(q) ==
    LET priors == {<<>>, Greeted, Discussed, Informed, Rescheduled, Moved,
                   Contacted, NullOldest, NullRecent, NullLongAgo}
    IN priors \cup {prior \o <<UserTurn(q)>> : prior \in priors}

\* extractAnswerFromHistory on a question and a history
InitExtract ==
    /\ IdleRetriever
    /\ IdleChat
    /\ question \in ExtractorQuestions
    /\ history \in ExtractorHistories(question)
    /\ user = "none"
    /\ arg = [fn |-> "extractAnswerFromHistory"]
    /\ ret = NotReturned
    /\ pc = "extract"

ExtractAnswer ==
    /\ pc = "extract"
    /\ ret' = Outcome(Extracted)
    /\ pc' = "answered"
    /\ UNCHANGED <<retrieveVars, chatVars, calls, arg>>

NextExtract == ExtractAnswer

SpecExtract == InitExtract /\ [][NextExtract]_vars

\* most candidates handed to the merge on its own
MaxCand == 3

\* candidate sequences: any documents, repeats included, in any order
CandidateLists == UNION {[1..k -> DOMAIN Catalogue] : k \in 0..MaxCand}

\* steps 3 to 6 on a candidate sequence, and on the sequence twice over
InitMerge ==
    /\ IdleRetriever
    /\ IdleChat
    /\ question = ""
    /\ history = <<>>
    /\ user = "none"
    /\ \E c \in CandidateLists, lim \in 1..MaxLimit :
          arg = [fn |-> "merge", candidates |-> c, limit |-> lim]
    /\ ret = NotReturned
    /\ pc = "mergeOnce"

\* allResults = C
MergeOnce ==
    /\ pc = "mergeOnce"
    /\ ret' = [done |-> FALSE,
               once |-> MergeFilterRank(arg.candidates, <<>>, arg.limit)]
    /\ pc' = "mergeTwice"
    /\ UNCHANGED <<retrieveVars, chatVars, calls, arg>>

\* allResults = [...C, ...C]
MergeTwice ==
    /\ pc = "mergeTwice"
    /\ ret' = [done |-> TRUE, once |-> ret.once,
               twice |-> MergeFilterRank(arg.candidates, arg.candidates, arg.limit)]
    /\ pc' = "merged"
    /\ UNCHANGED <<retrieveVars, chatVars, calls, arg>>

NextMerge ==
    \/ MergeOnce
    \/ MergeTwice

SpecMerge == InitMerge /\ [][NextMerge]_vars

-----------------------------------------------------------------------------
(* performStandardSearch(query) called on its own, on a collection held in *)
(* arg.  A document is read for the fields the find names and for the      *)
(* location the schema keeps; its _id is its position in the collection.   *)

StoredDoc(name, place, loc, text) ==
    [event_name |-> name, place |-> place, location |-> loc, full_text |-> text]

\* documents with each field absent or holding a text
StoredDocs ==
    {StoredDoc(n, p, l, t) :
        n \in {None, C("Goa Gala"), C("Holi")},
        p \in {None, C("Goa Hall")},
        l \in {None, C("Goa")},
        t \in {None, C("Fest at GOA")}}

\* most documents in a collection, but for the one that exceeds the cap
MaxDocs == 2

\* a collection with more matching documents than the find is limited to
FullCollection ==
    [i \in 1..(StandardLimit + 1) |-> StoredDoc(C("Goa Gala"), None, None, None)]

Collections ==
    UNION {[1..k -> StoredDocs] : k \in 0..MaxDocs} \cup {FullCollection}

StandardQueries == {"goa", "Holi", "fest", "g.a", "pune", "(", "c++"}

\* new RegExp(query, 'i') for a query that compiles and whose only special
\* character is the dot: each other character stands for itself
QueryPattern(query) ==
    Cat([i \in 1..Len(query) |-> IF query[i] = "." THEN Dot ELSE Lit(query[i])])

\* {field: searchRegex}: an absent field matches nothing
MatchesQuery(pattern, field) == field # None /\ Test(pattern, toLowerCase(field))

\* the same filter, were it to name event_details.location
FoundByNameLocationText(pattern, d) ==
    \/ MatchesQuery(pattern, d.event_name)
    \/ MatchesQuery(pattern, d.location)
    \/ MatchesQuery(pattern, d.full_text)

\* $or: [{"event_details.event_name"}, {"event_details.place"}, {"full_text"}]
FoundByStandardSearch(pattern, d) ==
    \/ MatchesQuery(pattern, d.event_name)
    \/ MatchesQuery(pattern, d.place)
    \/ MatchesQuery(pattern, d.full_text)

\* find({$or}).limit(50).toArray(), as the _ids in natural order
standardResults(query, docs) ==
    LET pattern == QueryPattern(toLowerCase(C(query)))
    IN slice0(SelectSeq([i \in DOMAIN docs |-> i],
                        LAMBDA i : FoundByStandardSearch(pattern, docs[i])),
              StandardLimit)

InitStandard ==
    /\ IdleRetriever
    /\ IdleChat
    /\ question = ""
    /\ history = <<>>
    /\ user = "none"
    /\ \E q \in StandardQueries, docs \in Collections :
          arg = [fn |-> "standard", query |-> q, docs |-> docs]
    /\ ret = NotReturned
    /\ pc = "standard"

\* the find returns: {answer, sources}
PerformStandardSearch ==
    /\ pc = "standard"
    /\ RegExpCompiles(C(arg.query))
    /\ LET results == standardResults(arg.query, arg.docs)
       IN ret' = [done |-> TRUE, throws |-> FALSE,
                  answer |-> Ans(IF Len(results) > 0 THEN "standardFound"
                                 ELSE "standardNone",
                                 C(arg.query), Len(results), <<>>),
                  sources |-> results]
    /\ pc' = "searched"
    /\ UNCHANGED <<retrieveVars, chatVars, calls, arg>>

\* new RegExp(query) or the find throws: the catch rethrows
PerformStandardSearchThrows ==
    /\ pc = "standard"
    /\ ret' = [done |-> TRUE, throws |-> TRUE, answer |-> NoAns, sources |-> <<>>]
    /\ pc' = "searched"
    /\ UNCHANGED <<retrieveVars, chatVars, calls, arg>>

NextStandard ==
    \/ PerformStandardSearch
    \/ PerformStandardSearchThrows

SpecStandard == InitStandard /\ [][NextStandard]_vars

-----------------------------------------------------------------------------

(* Properties of retrieveRelevantEvents, stated on the state in which it   *)
(* has returned.                                                           *)

\* the candidate union [vector..., keyword...]
allCandidates == vectorResults \o keywordResults

\* where x first stands in seq
FirstIndex(seq, x) ==
    CHOOSE i \in DOMAIN seq : seq[i] = x /\ \A j \in 1..(i - 1) : seq[j] # x

HasReturned == pc = "retrieved"

\* C2: the strategies are isolated: a strategy that throws contributes no
\* candidates, and what the other strategy found is still merged, filtered
\* and returned.
C2_StrategiesIsolated ==
    HasReturned => retrieved = MergeFilterRank(vectorResults, keywordResults, limit)

\* C7 as stated: no two returned records share an id, and no two share a
\* normalized name, the empty normalized name included.
C7_NoSharedIdOrName ==
    HasReturned =>
        \A i, j \in DOMAIN retrieved :
            i # j => /\ Doc(retrieved[i]).id # Doc(retrieved[j]).id
                     /\ normalizeName(LoweredName(Doc(retrieved[i])))
                            # normalizeName(LoweredName(Doc(retrieved[j])))

\* C7 amended: no two returned records share an id, and no two share a
\* normalized name that is not empty.
C7_NoSharedIdOrNonEmptyName ==
    HasReturned =>
        \A i, j \in DOMAIN retrieved :
            i # j => /\ Doc(retrieved[i]).id # Doc(retrieved[j]).id
                     /\ \/ normalizeName(LoweredName(Doc(retrieved[i]))) = <<>>
                        \/ normalizeName(LoweredName(Doc(retrieved[i])))
                               # normalizeName(LoweredName(Doc(retrieved[j])))

\* two candidates with different ids and one non-empty normalized name came
\* in, and one of them was returned
C7_Witness ==
    /\ HasReturned
    /\ \E i, j \in DOMAIN allCandidates :
          /\ allCandidates[i] # allCandidates[j]
          /\ NormalizedNameOf[allCandidates[i]] # <<>>
          /\ NormalizedNameOf[allCandidates[i]] = NormalizedNameOf[allCandidates[j]]
          /\ \E k \in DOMAIN retrieved : retrieved[k] = allCandidates[i]

\* a raw name of length <= 3 that is not an acronym of 3 uppercase letters
IsNoiseName(name) == Len(name) <= 3 /\ ~(Len(name) = 3 /\ AllUpper(name))

\* some deduplicated candidate passes the strict filter
StrictPassNonEmpty ==
    \E k \in DOMAIN uniqueOf(allCandidates) :
        PassesStrict(Doc(uniqueOf(allCandidates)[k]))

Relaxed == ~StrictPassNonEmpty /\ uniqueOf(allCandidates) # <<>>

\* C9: every returned record scores >= 50, except in the relaxation pass,
\* where every returned record scores >= 40 and has a name longer than 2.
C9_Floors ==
    HasReturned =>
        \A k \in DOMAIN retrieved :
            IF Relaxed
            THEN /\ calculateEventQuality(Doc(retrieved[k])) >= 40
                 /\ Len(trim(Doc(retrieved[k]).event_name)) > 2
            ELSE calculateEventQuality(Doc(retrieved[k])) >= 50

\* the relaxation pass returned a record scoring below 50 while a candidate
\* scoring below 40 was held back
C9_Witness ==
    /\ HasReturned
    /\ Relaxed
    /\ \E k \in DOMAIN retrieved : calculateEventQuality(Doc(retrieved[k])) < 50
    /\ \E i \in DOMAIN allCandidates :
          /\ calculateEventQuality(Doc(allCandidates[i])) < 40
          /\ Len(trim(Doc(allCandidates[i]).event_name)) > 3

\* C10: returned records are in non-increasing order of score, and records
\* of equal score keep the order they have in the union, in either pass.
C10_SortedStable ==
    HasReturned =>
        \A i, j \in DOMAIN retrieved :
            i < j =>
                /\ calculateEventQuality(Doc(retrieved[i]))
                       >= calculateEventQuality(Doc(retrieved[j]))
                /\ calculateEventQuality(Doc(retrieved[i]))
                       = calculateEventQuality(Doc(retrieved[j]))
                   => FirstIndex(allCandidates, retrieved[i])
                          < FirstIndex(allCandidates, retrieved[j])

\* the sort moved a record ahead of one that precedes it in the union, and
\* two records of equal score were returned
C10_Witness ==
    /\ HasReturned
    /\ \E i, j \in DOMAIN retrieved :
          /\ i < j
          /\ FirstIndex(allCandidates, retrieved[i])
                 > FirstIndex(allCandidates, retrieved[j])
    /\ \E i, j \in DOMAIN retrieved :
          /\ i < j
          /\ calculateEventQuality(Doc(retrieved[i]))
                 = calculateEventQuality(Doc(retrieved[j]))

-----------------------------------------------------------------------------
(* Properties of getChatResponse, over Spec *)

Called(name) == \E i \in DOMAIN calls : calls[i] = name
TimesCalled(name) == Cardinality({i \in DOMAIN calls : calls[i] = name})
FailedKinds == {"noProvider", "fetchThrows", "parseThrows", "httpError"}
HasFinished == pc = "done"

\* C1: getChatResponse never rejects: whatever the question, the history, the
\* identity and the failures of the store and the services, the call ends
\* with an {answer, sources} result
C1_NeverRejects == result.outcome # "thrown"

\* C3: once the classifier has returned true for the turn, neither the
\* embedding service nor the retriever is called, whatever the history,
\* the empty history included
C3_FollowUpNeverRetrieves ==
    isFollowUp => ~Called("embed") /\ ~Called("retrieve")

\* C3, amended: once the classifier has returned true for a turn whose history
\* is not empty, neither the embedding service nor the retriever is called;
\* with the empty history both are called although the classifier returned true
C3_FollowUpWithHistoryNeverRetrieves ==
    /\ (isFollowUp /\ Len(history) > 0) => ~Called("embed") /\ ~Called("retrieve")
    /\ (isFollowUp /\ Len(history) = 0) => Called("embed") /\ Called("retrieve")

C3_Witness ==
    /\ HasFinished
    /\ isFollowUp
    /\ Len(history) > 0
    /\ Called("generate")
    /\ ~Called("embed")

C5_FallbackOrder ==
    (generation \in FailedKinds) =>
        /\ Called("extract") <=> isFollowUp
        /\ (HasFinished /\ isFollowUp /\ ~caught /\ ~Extracted.value.isNull) =>
              result = Returned(Ans("extracted", Extracted.value.text, 0, <<>>), <<>>)
        /\ (HasFinished /\ ~isFollowUp /\ relevantEvents # <<>>) =>
              /\ result.outcome = "returned"
              /\ result.answer.kind = "summary"
              /\ result.answer.count = Len(relevantEvents)
              /\ result.answer.items =
                     SubSeq(relevantEvents, 1, Min(3, Len(relevantEvents)))
              /\ result.sources = relevantEvents
        /\ (HasFinished /\ ~isFollowUp /\ relevantEvents = <<>>) =>
              /\ result.outcome = "returned"
              /\ result.answer.kind = "notFound"
              /\ result.sources = <<>>

C5_Witness ==
    /\ HasFinished
    /\ generation = "httpError"
    /\ ~isFollowUp
    /\ Len(relevantEvents) = 4
    /\ result.answer.kind = "summary"
    /\ Len(result.answer.items) = 3
    /\ Len(result.sources) = 4

\* C6: an error that escapes the steps is caught once; with events already
\* fetched the result is those events under the generic message and no
\* standard search is made, otherwise the result is what the one call of
\* performStandardSearch ends with
C6_OuterCatch ==
    (HasFinished /\ caught) =>
        IF relevantEvents # <<>>
        THEN /\ result = Returned(Ans("foundGeneric", <<>>, Len(relevantEvents), <<>>),
                                  relevantEvents)
             /\ ~Called("standard")
        ELSE /\ result = standardResult
             /\ TimesCalled("standard") = 1

C6_Witness ==
    /\ HasFinished
    /\ caught
    /\ Len(relevantEvents) > 1
    /\ result.outcome = "returned"
    /\ result.sources = relevantEvents

\* the deduplicated candidates that pass the strict or the lenient filter
Survivors ==
    SelectSeq(uniqueOf(allCandidates),
              LAMBDA e : PassesStrict(Doc(e)) \/ PassesLenient(Doc(e)))

\* C11: at most `limit` records are returned; every returned record passed the
\* strict or the relaxed filter; when retrieval fails, or no candidate passes
\* either filter, the empty sequence is returned.
C11_BoundedNeverSubstitutes ==
    HasReturned =>
        /\ Len(retrieved) <= limit
        /\ \A k \in DOMAIN retrieved :
              PassesStrict(Doc(retrieved[k])) \/ PassesLenient(Doc(retrieved[k]))
        /\ keywordFailed => retrieved = <<>>
        /\ Survivors = <<>> => retrieved = <<>>

\* more candidates passed the strict filter than the limit allows, a candidate
\* that fails both filters came in beside them, and exactly `limit` records
\* were returned
C11_Witness ==
    /\ HasReturned
    /\ Len(qualityFilteredOf(uniqueOf(allCandidates))) > limit
    /\ \E i \in DOMAIN allCandidates :
          /\ ~PassesStrict(Doc(allCandidates[i]))
          /\ ~PassesLenient(Doc(allCandidates[i]))
    /\ Len(retrieved) = limit

\* candidates came in, none passed either filter, and nothing was returned
C11_NothingSurvives ==
    /\ HasReturned
    /\ ~keywordFailed
    /\ allCandidates # <<>>
    /\ Survivors = <<>>
    /\ retrieved = <<>>

-----------------------------------------------------------------------------
\* the literal marker "N/A", or an empty or whitespace-only string
IsPlaceholder(x) == x = NA \/ Len(trim(x)) = 0

\* a record without a name and without a date or location signal
IsLowInformation(event) ==
    /\ IsPlaceholder(event.event_name)
    /\ IsPlaceholder(event.event_date)
    /\ IsPlaceholder(event.location)

\* C15: a record lacking a name and lacking both a date and a location is
\* never among the returned records, whichever pass produced them.
C15_LowInformationExcluded ==
    HasReturned =>
        \A k \in DOMAIN retrieved : ~IsLowInformation(Doc(retrieved[k]))

\* the relaxed pass returned records while a record without name, date and
\* location was among the candidates
C15_Witness ==
    /\ HasReturned
    /\ Relaxed
    /\ retrieved # <<>>
    /\ \E i \in DOMAIN allCandidates : IsLowInformation(Doc(allCandidates[i]))

\* the same in the strict pass
C15_StrictPass ==
    /\ HasReturned
    /\ StrictPassNonEmpty
    /\ retrieved # <<>>
    /\ \E i \in DOMAIN allCandidates : IsLowInformation(Doc(allCandidates[i]))

(* Properties of the helper functions, over the specifications that call   *)
(* them on their own                                                       *)

\* C12: merger idempotence: for every candidate sequence C and limit, merging
\* C followed by C again gives exactly the ranked output of merging C once.
C12_MergeIdempotent ==
    pc = "merged" => ret.twice = ret.once

\* a sequence whose merge drops, reorders and keeps records (one of the kept
\* records has an empty normalized name) was merged once and twice over
C12_Witness ==
    /\ pc = "merged"
    /\ Len(ret.once) >= 2
    /\ Len(ret.once) < Len(arg.candidates)
    /\ ret.once # SubSeq(arg.candidates, 1, Len(ret.once))
    /\ \E k \in DOMAIN ret.once : NormalizedNameOf[ret.once[k]] = <<>>
    /\ ret.twice = ret.once

\* the record the scorer was called on
Scored == detailsOf(arg.event)

\* C13: for every record, a record without a details object or with missing
\* fields included, the score is an integer in [0,100].
C13_ScoreInRange ==
    pc = "scored" => ret.value \in 0..100

\* a record whose points add up to less than 0 (a short name and nothing
\* else) was scored 0
C13_Witness ==
    /\ pc = "scored"
    /\ calculateEventQualityUnclamped(Scored) < 0
    /\ ret.value = 0

\* the five scored fields beside the name
OtherFields(e) ==
    {e.event_date, e.location, e.event_time, e.organizer, e.website}

\* a name that pays the short-name penalty
IsShortName(name) == Len(trim(name)) <= 3 /\ ~IsAcronym23(trim(name))

\* C14 as stated: with all six scored fields present and non-placeholder the
\* score is 100, or 80 when the name pays the short-name penalty; with all
\* six fields placeholders the score is 0.
C14_CompleteScores100Or80 ==
    pc = "scored" =>
        /\ (~IsPlaceholder(Scored.event_name)
              /\ \A x \in OtherFields(Scored) : ~IsPlaceholder(x))
           => ret.value = (IF IsShortName(Scored.event_name) THEN 80 ELSE 100)
        /\ (IsPlaceholder(Scored.event_name)
              /\ \A x \in OtherFields(Scored) : IsPlaceholder(x))
           => ret.value = 0

\* C14, amended: with all six scored fields present and non-placeholder (the
\* name read after trimming) the score is 100 when the name is longer than 3
\* characters or an acronym of 2 to 3 capital letters, and 50 when the name
\* pays the short-name penalty, which also forfeits the 30 points of the
\* name; with all six fields placeholders the score is 0.
C14_CompleteScores100Or50 ==
    pc = "scored" =>
        /\ (~IsPlaceholder(trim(Scored.event_name))
              /\ \A x \in OtherFields(Scored) : ~IsPlaceholder(x))
           => ret.value = (IF IsShortName(Scored.event_name) THEN 50 ELSE 100)
        /\ (IsPlaceholder(Scored.event_name)
              /\ \A x \in OtherFields(Scored) : IsPlaceholder(x))
           => ret.value = 0

\* a record with all six fields present and a short name was scored 50
C14_Witness ==
    /\ pc = "scored"
    /\ ~IsPlaceholder(trim(Scored.event_name))
    /\ \A x \in OtherFields(Scored) : ~IsPlaceholder(x)
    /\ IsShortName(Scored.event_name)
    /\ ret.value = 50

\* the positions of the query's words that read t once lowercased
PositionsOf(t) == {p \in DOMAIN arg.words : toLowerCase(arg.words[p]) = t}

\* where t first occurs among the query's words
FirstPosition(t) == CHOOSE p \in PositionsOf(t) : \A r \in PositionsOf(t) : p <= r

\* every extracted token is a lowercased word of the query, longer than 2
\* characters and no stop-word, and the tokens stand in the order of the words
KeywordsFilteredInOrder ==
    pc = "extracted" =>
        /\ \A k \in DOMAIN ret.value :
              /\ ret.value[k] = toLowerCase(ret.value[k])
              /\ Len(ret.value[k]) > 2
              /\ ret.value[k] \notin stopWords
              /\ PositionsOf(ret.value[k]) # {}
        /\ \A i, j \in DOMAIN ret.value :
              i < j => \E p \in PositionsOf(ret.value[i]),
                          r \in PositionsOf(ret.value[j]) : p < r

\* C16: the extracted keywords are an ordered set: every token is lowercase,
\* longer than 2 characters and no stop-word, tokens stand in the order of
\* their first occurrence, and no token appears twice even when the query
\* repeats a word.
C16_KeywordsOrderedSet ==
    pc = "extracted" =>
        /\ \A k \in DOMAIN ret.value :
              /\ ret.value[k] = toLowerCase(ret.value[k])
              /\ Len(ret.value[k]) > 2
              /\ ret.value[k] \notin stopWords
              /\ PositionsOf(ret.value[k]) # {}
        /\ \A i, j \in DOMAIN ret.value :
              i < j => /\ ret.value[i] # ret.value[j]
                       /\ FirstPosition(ret.value[i]) < FirstPosition(ret.value[j])

\* a query that repeats a word gave the word twice
KeywordRepeated ==
    /\ pc = "extracted"
    /\ \E i, j \in DOMAIN ret.value : i < j /\ ret.value[i] = ret.value[j]

\* the question as the classifier reads it
LoweredQuestion == trim(toLowerCase(C(question)))

\* the number of words of q: the places a run of non-blanks starts at
TokenCount(q) ==
    Cardinality({i \in DOMAIN q : q[i] # " " /\ (i = 1 \/ q[i - 1] = " ")})

\* C17: isFollowUpQuestion returns true exactly when one of its three checks
\* fires; with the empty history only the fixed patterns decide; a question of
\* at most 3 tokens that contains a detail word is a follow-up whenever the
\* history is non-empty.  It returns for every history made of turns.
C17_ThreeChecks ==
    pc = "classified" =>
        /\ ret.throws => HasNull(history)
        /\ ~ret.throws =>
              /\ ret.value = (\/ ShortWithDetailWord(LoweredQuestion, history)
                              \/ ReferencesEvent(LoweredQuestion, history)
                              \/ MatchesFollowUpPattern(LoweredQuestion))
              /\ Len(history) = 0 =>
                    ret.value = MatchesFollowUpPattern(LoweredQuestion)
              /\ (/\ Len(history) > 0
                  /\ TokenCount(LoweredQuestion) <= 3
                  /\ HasAny(LoweredQuestion, detailWords)) => ret.value
              /\ (question = "which date?" /\ Len(history) > 0) => ret.value
              /\ (question = "show me all events" /\ Len(history) = 0) => ~ret.value

\* a short question with a detail word that matches no fixed pattern was
\* classified a follow-up on a non-empty history
C17_Witness ==
    /\ pc = "classified"
    /\ ~ret.throws
    /\ Len(history) > 0
    /\ TokenCount(LoweredQuestion) <= 3
    /\ HasAny(LoweredQuestion, detailWords)
    /\ ~MatchesFollowUpPattern(LoweredQuestion)
    /\ ~ReferencesEvent(LoweredQuestion, history)
    /\ ret.value

\* the same question on the empty history was classified not a follow-up
C17_EmptyHistory ==
    /\ pc = "classified"
    /\ Len(history) = 0
    /\ HasAny(LoweredQuestion, detailWords)
    /\ ~ret.value

\* the event-reference check alone made the question a follow-up
C17_EventReference ==
    /\ pc = "classified"
    /\ ~ret.throws
    /\ ~ShortWithDetailWord(LoweredQuestion, history)
    /\ ~MatchesFollowUpPattern(LoweredQuestion)
    /\ ret.value

\* the rules of the extractor, in the claimed order of priority
RuleOrder == <<"tell", "time", "contact", "location", "date">>

\* what one rule yields on the content of one assistant turn
RuleYields(rule, q, content) ==
    CASE rule = "tell" ->
           IF AsksToTell(q) /\ Len(content) > 30 THEN Answer("tell", content)
           ELSE NoAnswer
      [] rule = "time" -> IF AsksTime(q) THEN TimeAnswer(content) ELSE NoAnswer
      [] rule = "contact" -> IF AsksContact(q) THEN ContactAnswer(content) ELSE NoAnswer
      [] rule = "location" -> IF AsksLocation(q) THEN LocationAnswer(content) ELSE NoAnswer
      [] rule = "date" -> IF AsksDate(q) THEN DateAnswer(content) ELSE NoAnswer

\* the assistant turns with content
AssistantTurns ==
    {i \in DOMAIN history :
        history[i] # NullTurn /\ history[i].role = "ai" /\ history[i].content # ""}

\* some rule matches on turn i
RuleMatchesOn(i) ==
    \E k \in DOMAIN RuleOrder :
        ~RuleYields(RuleOrder[k], LoweredQuestion, C(history[i].content)).isNull

\* answer a is what the first rule, in the order of priority, that matches on
\* turn i yields
IsAnswerOfTurn(a, i) ==
    \E k \in DOMAIN RuleOrder :
        /\ a = RuleYields(RuleOrder[k], LoweredQuestion, C(history[i].content))
        /\ ~a.isNull
        /\ \A j \in 1..(k - 1) :
              RuleYields(RuleOrder[j], LoweredQuestion, C(history[i].content)).isNull

\* C18: the extractor answers from the most recent assistant turn on which a
\* rule matches, with the first rule that matches there in the order
\* tell-about, time, contact, location, date; with fewer than 2 turns, or
\* when no rule matches on any assistant turn, it returns null; an answer is
\* never the empty string.  It returns for every history made of turns.
C18_MostRecentTurnRulePriority ==
    pc = "answered" =>
        /\ ret.throws => HasNull(history)
        /\ (~ret.throws /\ Len(history) < 2) => ret.value.isNull
        /\ (~ret.throws /\ Len(history) >= 2) =>
              IF \E i \in AssistantTurns : RuleMatchesOn(i)
              THEN /\ ~ret.value.isNull
                   /\ ret.value.text # <<>>
                   /\ \E i \in AssistantTurns :
                         /\ IsAnswerOfTurn(ret.value, i)
                         /\ \A j \in AssistantTurns : j > i => ~RuleMatchesOn(j)
              ELSE ret.value.isNull

\* a question asking for the time and the place was answered with the place
\* from the most recent assistant turn, which gives no time, although an
\* older assistant turn gives the time
C18_Witness ==
    /\ pc = "answered"
    /\ ~ret.throws
    /\ ret.value.rule = "location"
    /\ AsksTime(LoweredQuestion)
    /\ \E i, j \in AssistantTurns :
          /\ i < j
          /\ ~TimeAnswer(C(history[i].content)).isNull
          /\ TimeAnswer(C(history[j].content)).isNull
          /\ IsAnswerOfTurn(ret.value, j)

\* on a turn that gives both the time and the place, the time was the answer
C18_TimeBeforeLocation ==
    /\ pc = "answered"
    /\ ~ret.throws
    /\ ret.value.rule = "time"
    /\ AsksLocation(LoweredQuestion)
    /\ \E i \in AssistantTurns :
          /\ IsAnswerOfTurn(ret.value, i)
          /\ ~LocationAnswer(C(history[i].content)).isNull

\* assistant turns were scanned and null was returned
C18_NothingExtractable ==
    /\ pc = "answered"
    /\ ~ret.throws
    /\ AssistantTurns # {}
    /\ Len(history) >= 2
    /\ AsksTime(LoweredQuestion)
    /\ ret.value.isNull

-----------------------------------------------------------------------------
(* End-to-end properties of getChatResponse, over Spec *)

\* a follow-up question that matches no fixed intent, asked after an
\* assistant turn holding a detail the extractor finds, on a history made of
\* turns
AsksAfterDetail ==
    /\ ~HasNull(history)
    /\ detectIntent(question) = "none"
    /\ Classified = Value(TRUE)
    /\ \E i \in AssistantTurns : RuleMatchesOn(i)

\* the result is the extractor's sentence, with the detail, and no sources
AnsweredFromHistory ==
    /\ result.outcome = "returned"
    /\ result.answer.kind = "extracted"
    /\ \E i \in AssistantTurns : IsAnswerOfTurn(Answer(Extracted.value.rule,
                                                       result.answer.text), i)
    /\ AsksTime(LoweredQuestion) => Includes(result.answer.text, C("10am to 2pm"))
    /\ result.sources = <<>>

\* the number of user turns of the history
UserTurnCount == Cardinality({i \in DOMAIN history : history[i].role = "user"})

\* some assistant turn asks for the name
NameAsked ==
    \E i \in DOMAIN history :
        history[i].role = "ai" /\ AsksForName(history[i].content)

\* the turn before the last one asks for the name
NameJustAsked ==
    /\ Len(history) >= 2
    /\ history[Len(history) - 1].role = "ai"
    /\ AsksForName(history[Len(history) - 1].content)

\* C19 as stated: a follow-up question asked after an assistant turn with an
\* extractable detail, generation being unavailable, ends with the
\* extractor's sentence holding the detail and with empty sources, for every
\* such history.
C19_AnswersFromHistory ==
    (HasFinished /\ generation # "success" /\ AsksAfterDetail)
        => AnsweredFromHistory

\* C19, amended: the same, provided the history holds at least 2 turns and
\* the name steps do not answer first.  Without an identity, a history with
\* exactly one user turn and no request for the name ends with the request
\* for the name, and a question that follows the request for the name ends
\* with the acknowledgement; a history of one turn ends with the generic
\* trouble message.  Sources are empty in every case.
C19_AnswersFromHistoryPastNameSteps ==
    (HasFinished /\ generation # "success" /\ AsksAfterDetail) =>
        /\ result.outcome = "returned"
        /\ result.sources = <<>>
        /\ IF user = "none" /\ UserTurnCount = 1 /\ ~NameAsked
           THEN result.answer.kind = "askName"
           ELSE IF user = "none" /\ NameJustAsked
                   /\ extractUserName(C(question)) # <<>>
           THEN result.answer.kind = "niceToMeet"
           ELSE IF Len(history) < 2
           THEN result.answer.kind = "trouble"
           ELSE AnsweredFromHistory

\* "what time?" after the assistant's "10am to 2pm", generation failing: the
\* answer is the extractor's sentence with "10am to 2pm", no sources
C19_Witness ==
    /\ HasFinished
    /\ generation \in FailedKinds
    /\ AsksAfterDetail
    /\ question = "what time?"
    /\ user = "none"
    /\ AnsweredFromHistory
    /\ result.answer.text = C("The event is scheduled 10am to 2pm.")

\* the same question from a caller without identity whose history holds one
\* user turn: the answer is the request for the name
C19_NameGateFirst ==
    /\ HasFinished
    /\ AsksAfterDetail
    /\ question = "what time?"
    /\ result.answer.kind = "askName"

\* the same question on a history of one turn: the generic trouble message
C19_SingleTurn ==
    /\ HasFinished
    /\ AsksAfterDetail
    /\ Len(history) = 1
    /\ generation \in FailedKinds
    /\ result.answer.kind = "trouble"

\* the same question right after the assistant asked for the name: the
\* question is taken for the name and acknowledged
C19_NameCaptureFirst ==
    /\ HasFinished
    /\ AsksAfterDetail
    /\ question = "what time?"
    /\ result.answer.kind = "niceToMeet"

C20_IdentitySkipsGate ==
    /\ HasFinished
    /\ user # "none"
    /\ IsListIntent(toLowerCase(C(question)))
    /\ history = <<UserTurn(question)>>
    /\ calls # <<>>

-----------------------------------------------------------------------------
(* The fixed intents end to end, over Spec *)

\* the question matches the greeting rule of detectIntent
MatchesGreeting == Test(GreetingPattern, toLowerCase(C(question)))

\* the question matches the list rule, whatever it starts with
HasListPhrase == IsListIntent(toLowerCase(C(question)))

\* the question matches one of the three rules: greeting, list all, help
MatchesFixedIntent ==
    MatchesGreeting \/ HasListPhrase \/ IsHelpIntent(toLowerCase(C(question)))

\* the embedding service, the retriever or the generation service was called
RemoteCalled ==
    \/ Called("embed") \/ Called("retrieve") \/ Called("vector")
    \/ Called("keyword") \/ Called("generate")

\* C21: a call that is past the name steps and whose question matches a fixed
\* intent (greeting, list all events, help) calls neither the embedding
\* service, the retriever nor the generation service, and unless the store
\* fails it ends with the canned or listed answer of the intent; a greeting
\* ends with the canned greeting and no sources
C21_FixedIntentBypasses ==
    (PastNameSteps /\ MatchesFixedIntent) =>
        /\ ~RemoteCalled
        /\ (HasFinished /\ ~caught) =>
              /\ result.outcome = "returned"
              /\ result.answer.kind \in {"greeting", "listed", "latest", "help"}
              /\ MatchesGreeting =>
                    result.answer.kind = "greeting" /\ result.sources = <<>>

\* "hello" from a caller with an identity went through the embedding service,
\* the retriever and the generation service, and ends with generated text
C21_GreetingRetrieves ==
    /\ HasFinished
    /\ question = "hello"
    /\ user = "named"
    /\ Called("embed") /\ Called("retrieve") /\ Called("generate")
    /\ result.answer.kind = "generated"

\* the part of C21 that holds: the list and the help intent, on a question
\* that does not start with a greeting word
C21_ListAndHelpBypass ==
    (PastNameSteps /\ MatchesFixedIntent /\ ~MatchesGreeting) =>
        /\ ~RemoteCalled
        /\ (HasFinished /\ ~caught) =>
              /\ result.outcome = "returned"
              /\ result.answer.kind \in {"listed", "latest", "help"}

\* find({}).sort(sortOrder).limit(50): the whole collection up to the cap,
\* newest first when the question says "latest"
WholeStoreCapped ==
    slice0(IF Has(toLowerCase(C(question)), "latest")
           THEN byIdDescending(store) ELSE store, ListLimit)

\* the list branch was taken: the unfiltered find is the first call, nothing
\* remote is called, and when the find returns it is the only call and its
\* records are the sources
ListBranchTaken ==
    /\ ~RemoteCalled
    /\ pc # "start" => calls[1] = "find"
    /\ (HasFinished /\ ~caught) =>
          /\ calls = <<"find">>
          /\ result.outcome = "returned"
          /\ result.answer.kind \in {"listed", "latest"}
          /\ result.answer.count = Len(WholeStoreCapped)
          /\ result.sources = WholeStoreCapped

\* C22: a question that contains a list-all phrase, asked with the empty
\* history, takes the list branch: one unfiltered, limited find whose records
\* are the sources, and no embedding, search or generation
C22_ListIntentOnEmptyHistory ==
    (HasListPhrase /\ history = <<>>) => ListBranchTaken

\* C22, amended: so it is unless the question starts with a greeting word;
\* then the greeting rule answers first, the list rule is never tried and no
\* unfiltered find is made
C22_ListIntentUnlessGreeting ==
    /\ (HasListPhrase /\ ~MatchesGreeting /\ history = <<>>) => ListBranchTaken
    /\ (HasListPhrase /\ MatchesGreeting /\ history = <<>>) =>
          /\ ~Called("find")
          /\ result.answer.kind \notin {"listed", "latest"}

C22_Witness ==
    /\ HasFinished
    /\ question = "all events"
    /\ history = <<>>
    /\ calls = <<"find">>
    /\ result.answer.kind = "listed"
    /\ result.sources = store

\* "hi all events" on the empty history reached the generation service
C22_GreetingShadowsList ==
    /\ HasFinished
    /\ question = "hi all events"
    /\ history = <<>>
    /\ Called("generate")
    /\ ~Called("find")

-----------------------------------------------------------------------------
(* The remote services within one call, over Spec *)

\* generateEmbedding was called and returned null
EmbeddingFailed == Called("embed") /\ ~queryEmbedding

\* retrieveRelevantEvents has returned to getChatResponse
RetrievalOver == pc \in {"generate", "catch", "done"}

\* C23: once generateEmbedding has failed, the vector search is not issued,
\* the keyword search is (for a non-empty question), and the call goes on to
\* context assembly and the generation service: nothing but a history entry
\* on which context assembly throws takes it to the outer catch
C23_EmbeddingFailureContinues ==
    EmbeddingFailed =>
        /\ ~Called("vector")
        /\ Called("retrieve")
        /\ RetrievalOver => (Called("keyword") <=> question # "")
        /\ (pc = "catch" \/ caught) => ContextThrows
        /\ (HasFinished /\ ~ContextThrows) => Called("generate")

C23_Witness ==
    /\ HasFinished
    /\ EmbeddingFailed
    /\ Called("keyword")
    /\ generation = "success"
    /\ relevantEvents # <<>>
    /\ result.answer.kind = "generated"
    /\ result.sources = relevantEvents

\* every call of the one kind comes before every call of the other
AllBefore(first, second) ==
    \A i, j \in DOMAIN calls : (calls[i] = first /\ calls[j] = second) => i < j

\* C24: within one call the embedding service and the generation service are
\* each called at most once, so a failed call is not repeated; the embedding
\* call comes before the retriever and its searches, and these before the
\* generation call
C24_RemoteCallsOnceInOrder ==
    /\ TimesCalled("embed") <= 1
    /\ TimesCalled("generate") <= 1
    /\ TimesCalled("retrieve") <= 1
    /\ EmbeddingFailed => TimesCalled("embed") = 1
    /\ generation \in FailedKinds => TimesCalled("generate") = 1
    /\ AllBefore("embed", "retrieve")
    /\ AllBefore("retrieve", "vector") /\ AllBefore("retrieve", "keyword")
    /\ AllBefore("vector", "generate") /\ AllBefore("keyword", "generate")
    /\ AllBefore("retrieve", "generate")
    /\ Called("retrieve") => Called("embed")

C24_Witness ==
    /\ HasFinished
    /\ EmbeddingFailed
    /\ generation = "httpError"
    /\ calls = <<"embed", "retrieve", "keyword", "generate">>

-----------------------------------------------------------------------------
(* Properties of performStandardSearch, over SpecStandard *)

\* performStandardSearch returned {answer, sources}
Searched == pc = "searched" /\ ~ret.throws

\* the text holds the query as a phrase, whatever the case of either
HoldsPhrase(field) == Includes(toLowerCase(field), toLowerCase(C(arg.query)))

MatchesByNameLocationText(i) ==
    \/ HoldsPhrase(arg.docs[i].event_name)
    \/ HoldsPhrase(arg.docs[i].location)
    \/ HoldsPhrase(arg.docs[i].full_text)

MatchesByNamePlaceText(i) ==
    \/ HoldsPhrase(arg.docs[i].event_name)
    \/ HoldsPhrase(arg.docs[i].place)
    \/ HoldsPhrase(arg.docs[i].full_text)

Positions == [i \in DOMAIN arg.docs |-> i]

\* C25: performStandardSearch returns the stored documents, up to the cap,
\* whose name, location or full text holds the query phrase whatever the
\* case; a document that matches in its location alone is among them
C25_MatchesNameLocationText ==
    Searched =>
        ret.sources = slice0(SelectSeq(Positions, MatchesByNameLocationText),
                             StandardLimit)

\* a document whose location alone holds the query is not returned
C25_LocationOnlyMissed ==
    /\ Searched
    /\ \E i \in DOMAIN arg.docs :
          /\ HoldsPhrase(arg.docs[i].location)
          /\ ~HoldsPhrase(arg.docs[i].event_name)
          /\ ~HoldsPhrase(arg.docs[i].full_text)
          /\ \A k \in DOMAIN ret.sources : ret.sources[k] # i

\* what holds instead, for a query without special characters: the documents
\* returned are those whose name, place or full text holds the phrase
C25_MatchesNamePlaceText ==
    (Searched /\ IsLiteralPattern(C(arg.query))) =>
        /\ ret.sources = slice0(SelectSeq(Positions, MatchesByNamePlaceText),
                                StandardLimit)
        /\ ret.answer.count = Len(ret.sources)

\* the cap cuts the result off
C25_Capped ==
    /\ Searched
    /\ Len(arg.docs) > StandardLimit
    /\ Len(ret.sources) = StandardLimit

\* a dot in the query stands for any character
C25_DotMatchesAny ==
    /\ Searched
    /\ arg.query = "g.a"
    /\ ret.sources # <<>>

-----------------------------------------------------------------------------
(* How far back the history is read, over Spec *)

\* conversationHistory.slice(-10): the longest window the code cuts
RecentWindow == 10

\* the history without the turns older than the most recent ten
Recent == sliceLast(history, RecentWindow)

\* what the steps that read the history yield on a history
HistoryReadings(h) ==
    [askForName |-> IF user # "none" THEN Value(FALSE) ELSE shouldAskForName(h),
     nameGiven |-> IF user # "none" THEN Value(FALSE) ELSE isNameResponse(h),
     userName |-> IF user = "named" THEN Value(displayName) ELSE getUserName(h),
     followUp |-> isFollowUpQuestion(question, h),
     extracted |-> extractAnswerFromHistory(question, h),
     context |-> sliceLast(h, 10)]

\* C26: the call reads a bounded suffix of the history only: what the name
\* gate, the name capture, the name lookup, the classifier, the extractor and
\* context assembly yield is the same once the turns older than the most
\* recent ten are removed
C26_ReadsBoundedSuffix == HistoryReadings(Recent) = HistoryReadings(history)

\* a call on a well-formed history of more than ten turns ended with a
\* sentence the extractor took from a turn older than the most recent ten
C26_OldTurnAnswers ==
    /\ HasFinished
    /\ ~HasNull(history)
    /\ Len(history) > RecentWindow
    /\ result.answer.kind = "extracted"
    /\ extractAnswerFromHistory(question, Recent) = Value(NoAnswer)

\* the part that holds: the classifier and context assembly read a suffix
C26_ClassifierAndContextBounded ==
    /\ isFollowUpQuestion(question, Recent) = Classified
    /\ sliceLast(Recent, 10) = sliceLast(history, 10)

-----------------------------------------------------------------------------
(* The kinds of generation failure, over Spec *)

\* the extractor threw on a history entry that is no {role, content} object
ExtractorThrows == isFollowUp /\ Extracted.throws

\* the answer step 8 gives, from the classification, the sources and the
\* history alone
AnswerAfterFailure ==
    IF isFollowUp
    THEN IF Extracted.value.isNull THEN "trouble" ELSE "extracted"
    ELSE IF relevantEvents # <<>> THEN "summary" ELSE "notFound"

\* the result is the one step 8 gives, whatever the kind of failure was
SameAfterFailure ==
    /\ result.outcome = "returned"
    /\ result.answer.kind = AnswerAfterFailure
    /\ result.answer.kind = "extracted" => result.answer.text = Extracted.value.text
    /\ result.answer.kind = "summary" =>
          /\ result.answer.count = Len(relevantEvents)
          /\ result.answer.items = slice0(relevantEvents, 3)
    /\ result.sources = IF isFollowUp THEN <<>> ELSE relevantEvents

C27_ExtractorThrowsIntoOuterNet ==
    /\ HasFinished
    /\ generation = "noProvider"
    /\ caught
    /\ TimesCalled("extract") = 2

-----------------------------------------------------------------------------
(* The order of the union, over SpecRetrieve *)

\* the merge has run on the two candidate sequences
Merged == pc = "retrieved" /\ ~keywordFailed

\* steps 1 to 6 with the union taken as [keyword..., vector...]
MergedKeywordFirst == MergeFilterRank(keywordResults, vectorResults, limit)

ScoresOf(seq) == [i \in DOMAIN seq |-> QualityOf[seq[i]]]

\* two different candidates have one normalized name, which is not empty
SharesName ==
    \E i, j \in DOMAIN allCandidates :
        /\ allCandidates[i] # allCandidates[j]
        /\ NormalizedNameOf[allCandidates[i]] # <<>>
        /\ NormalizedNameOf[allCandidates[i]] = NormalizedNameOf[allCandidates[j]]

\* the lowest score among the records returned
LowestReturned ==
    CHOOSE s \in Range(ScoresOf(retrieved)) :
        \A t \in Range(ScoresOf(retrieved)) : s <= t

\* C28: merging [vector..., keyword...] and merging [keyword..., vector...]
\* return the same records, rank by rank with the same scores: they differ in
\* the order of records of equal score at most
C28_OrderTolerant ==
    Merged =>
        /\ Range(MergedKeywordFirst) = Range(retrieved)
        /\ ScoresOf(MergedKeywordFirst) = ScoresOf(retrieved)

\* C28, amended: so it is when no two different candidates share a
\* normalized name and the survivors are no more than the limit; when the
\* limit cuts survivors off the scores still agree rank by rank, and a record
\* in one result only has the lowest score returned
C28_OrderTolerantOnDistinctNames ==
    (Merged /\ ~SharesName) =>
        /\ ScoresOf(MergedKeywordFirst) = ScoresOf(retrieved)
        /\ Len(Survivors) <= limit => Range(MergedKeywordFirst) = Range(retrieved)
        /\ \A e \in (Range(MergedKeywordFirst) \ Range(retrieved))
                    \cup (Range(retrieved) \ Range(MergedKeywordFirst)) :
              QualityOf[e] = LowestReturned

\* both strategies found records, none shares a name, and the two unions
\* give the same records in another order
C28_Witness ==
    /\ Merged
    /\ ~SharesName
    /\ vectorResults # <<>>
    /\ keywordResults # <<>>
    /\ Len(retrieved) >= 2
    /\ MergedKeywordFirst # retrieved
    /\ Range(MergedKeywordFirst) = Range(retrieved)

\* two candidates of one name: each union returns another of them
C28_FirstOfANameSurvives ==
    /\ Merged
    /\ SharesName
    /\ Len(retrieved) = 1
    /\ Len(MergedKeywordFirst) = 1
    /\ retrieved # MergedKeywordFirst

\* a candidate of low score and one of high score with the same name: one
\* union returns a record, the other a record of lower score or none
C28_WorseDuplicateFirst ==
    /\ Merged
    /\ SharesName
    /\ ScoresOf(MergedKeywordFirst) # ScoresOf(retrieved)

\* the limit cuts between two records of equal score
C28_CutAmongTies ==
    /\ Merged
    /\ ~SharesName
    /\ Range(MergedKeywordFirst) # Range(retrieved)

-----------------------------------------------------------------------------
(* Duplicates of unequal quality, over SpecRetrieve *)

\* a candidate that is returned when it is the only one: its name passes the
\* noise rules and its score the strict floor
Qualifies(e) == ~TooShortOrGeneric(LoweredNameOf[e]) /\ PassesStrict(Doc(e))

\* C29: when the candidate union holds a record with a name that is no noise
\* and a score of 50 or more, the result is not empty and holds a record with
\* a score of 50 or more, whatever record of the same normalized name comes
\* before it in the union
C29_QualifyingCandidateNotLost ==
    (Merged /\ \E i \in DOMAIN allCandidates : Qualifies(allCandidates[i])) =>
        /\ retrieved # <<>>
        /\ \E k \in DOMAIN retrieved : QualityOf[retrieved[k]] >= StrictFloor

\* a qualifying candidate came after a namesake that passes no filter: nothing
\* is returned
C29_LostToWorseDuplicate ==
    /\ Merged
    /\ \E i \in DOMAIN allCandidates : Qualifies(allCandidates[i])
    /\ retrieved = <<>>

\* a qualifying candidate came after a namesake that passes the relaxed filter
\* only: the namesake is returned
C29_WorseDuplicateReturned ==
    /\ Merged
    /\ \E i \in DOMAIN allCandidates : Qualifies(allCandidates[i])
    /\ retrieved # <<>>
    /\ \A k \in DOMAIN retrieved : QualityOf[retrieved[k]] < StrictFloor

\* what holds: a qualifying candidate that no record of its normalized name
\* precedes in the union is kept by the loop, so the strict pass returns
\* records of score 50 or more
C29_FirstOfItsNameNotLost ==
    (Merged /\ \E i \in DOMAIN allCandidates :
                  /\ Qualifies(allCandidates[i])
                  /\ \A j \in 1..(i - 1) :
                        NormalizedNameOf[allCandidates[j]]
                            # NormalizedNameOf[allCandidates[i]]) =>
        /\ retrieved # <<>>
        /\ \A k \in DOMAIN retrieved : QualityOf[retrieved[k]] >= StrictFloor

-----------------------------------------------------------------------------
(* A whole anonymous conversation: the caller appends each answer and the  *)
(* next user turn to the history and calls getChatResponse again           *)

\* most calls of getChatResponse in one conversation
MaxTurns == 4

\* what the user types
Said == {"hello", "Sam", "what's your name?", "?", "all events", "help",
         "which date?"}

\* what steps 2 to 8 answer with, whichever of them produced it
Replies == {"It runs 10am to 2pm at Elements Cafe tonight."}

\* the string of a text
RECURSIVE Str(_)
Str(s) == IF s = <<>> THEN "" ELSE Head(s) \o Str(Tail(s))

\* the answer as the caller stores it in the next turn (the emoji of the
\* literals left out)
Spoken(answer) ==
    CASE answer.kind = "askName" -> "what is ur name"
      [] answer.kind = "niceToMeet" ->
            "Nice to meet you, " \o Str(answer.text)
                \o "! Now, how can I help you with events today?"
      [] answer.kind = "listed" ->
            "Here are " \o ToString(answer.count) \o " events I found for you!"
      [] answer.kind = "latest" ->
            "Here are the " \o ToString(answer.count)
                \o " most recently posted events!"
      [] answer.kind = "help" ->
            "I'm here to help you discover events! You can ask me things like: "
                \o "- 'Show me upcoming music festivals' "
                \o "- 'Are there any free events?' "
                \o "- 'What's happening in Borcelle?'"
      [] OTHER -> Str(answer.text)

InitConversation ==
    /\ store = ChatStore
    /\ queryEmbedding = FALSE
    /\ queryText = ""
    /\ limit = DefaultLimit
    /\ vectorResults = <<>>
    /\ keywordResults = <<>>
    /\ vectorFailed = FALSE
    /\ keywordFailed = FALSE
    /\ retrieved = <<>>
    /\ question \in Said
    /\ history = <<UserTurn(question)>>
    /\ user = "none"
    /\ isFollowUp = FALSE
    /\ relevantEvents = <<>>
    /\ generation = "none"
    /\ caught = FALSE
    /\ standardResult = Pending
    /\ result = Pending
    /\ calls = <<>>
    /\ pc = "start"
    /\ arg = NoCall
    /\ ret = NotReturned

\* steps 2 to 8 taken as one: no fixed intent matched, and the follow-up or
\* fresh-query handling answers
AnswersQuestion ==
    /\ pc = "start"
    /\ PastNameSteps
    /\ detectIntent(question) = "none"
    /\ \E reply \in Replies :
          result' = Returned(Ans("answered", C(reply), 0, <<>>), <<>>)
    /\ pc' = "done"
    /\ UNCHANGED <<unitVars, retrieveVars, chatArgs, isFollowUp, relevantEvents,
                   generation, caught, standardResult, calls>>

\* the caller appends the answer and the next user turn, and calls again
NextTurn ==
    /\ pc = "done"
    /\ Len(history) < 2 * MaxTurns - 1
    /\ \E said \in Said :
          /\ question' = said
          /\ history' = history \o <<AiTurn(Spoken(result.answer)), UserTurn(said)>>
    /\ result' = Pending
    /\ calls' = <<>>
    /\ pc' = "start"
    /\ UNCHANGED <<unitVars, retrieveVars, user, isFollowUp, relevantEvents,
                   generation, caught, standardResult>>

NextConversation ==
    \/ AskForName
    \/ AcknowledgeName
    \/ ListIntentReturns
    \/ HelpIntent
    \/ AnswersQuestion
    \/ NextTurn

SpecConversation == InitConversation /\ [][NextConversation]_vars

-----------------------------------------------------------------------------
(* Properties of the name steps across a conversation, over                *)
(* SpecConversation                                                        *)

NameRequest == "what is ur name"

\* the answer the current user turn follows
AnswerBefore == history[Len(history) - 1].content

\* answers already given that are the name request
RequestsSoFar ==
    {i \in DOMAIN history : history[i].role = "ai" /\ history[i].content = NameRequest}

Proceeded == result.answer.kind \in {"listed", "latest", "help", "answered"}

\* C30: across a conversation the name request is returned at most once, only
\* the turn right after it is answered as a name, and every other turn
\* proceeds to the fixed intents or the handling of the question
C30_NameStepsOnce ==
    pc = "done" =>
        /\ result.answer.kind = "askName" => RequestsSoFar = {}
        /\ result.answer.kind = "niceToMeet" =>
              Len(history) >= 3 /\ AnswerBefore = NameRequest
        /\ (Len(history) >= 3 /\ AnswerBefore # NameRequest) => Proceeded

\* the user answered the request with "what's your name?", the
\* acknowledgement repeated it, and the turn after is answered as a name too
C30_SecondNameResponse ==
    /\ pc = "done"
    /\ Len(history) = 5
    /\ history[2].content = NameRequest
    /\ history[3].content = "what's your name?"
    /\ history[5].content = "all events"
    /\ result.answer = Ans("niceToMeet", C("all events"), 0, <<>>)

\* what holds: the name request is returned once, as the first answer
C30_RequestOnlyFirst ==
    /\ Cardinality(RequestsSoFar) <= 1
    /\ (pc = "done" /\ result.answer.kind = "askName") => Len(history) = 1
    /\ (pc = "done" /\ Len(history) = 1) => result.answer.kind = "askName"

\* what holds: input no name can be taken from is handled as a question, and
\* no later turn is asked for the name or answered as one
C30_NoNameProceeds ==
    (/\ pc = "done"
     /\ Len(history) >= 3
     /\ extractUserName(C(history[3].content)) = <<>>) =>
        Proceeded

\* a conversation of four calls in which no name could be taken
C30_NoNameConversation ==
    /\ pc = "done"
    /\ Len(history) = 7
    /\ history[3].content = "?"
    /\ Proceeded

=============================================================================
